---- MODULE Spec2Model ----
(***************************************************************************)
(* A model of MBU-Linux (Make Bootable USB on Linux): the command-line     *)
(* front end (cli.py), the main window (ui/main_window.py), the image      *)
(* analyzer (core/image_analyzer.py), the two write strategies             *)
(* (core/writer_strategies), DiskManager and DiskFormatter (core).         *)
(*                                                                         *)
(* One control thread is modelled: the CLI process, or the GUI thread of   *)
(* the main window (perform_write runs on the GUI thread through           *)
(* QTimer.singleShot, so it is the same thread as the event handlers).     *)
(* External tools are the environment: every invocation ends "ok" (exit    *)
(* status 0), "fail" (non-zero exit status) or "missing" (the executable   *)
(* is not installed and subprocess raises FileNotFoundError).              *)
(*                                                                         *)
(* cmds and events are the history of the current write attempt: the       *)
(* external commands invoked and the (percent, message) pairs handed to    *)
(* the progress callback.                                                  *)
(*                                                                         *)
(* Specifications: Spec is the whole program from either front end;        *)
(* SpecWindowsFormat is WindowsWriteStrategy._format_for_windows called    *)
(* directly (in Spec, write raises before it reaches that method);         *)
(* SpecValidate is LinuxWriteStrategy.validate called directly (no caller  *)
(* in the program calls it); SpecDiskManager is the methods of DiskManager *)
(* called on a manager; SpecFormatting is every way to a formatting,       *)
(* DiskFormatter.format_disk included (no caller in the program calls it); *)
(* SpecExtract is WindowsWriteStrategy._extract_and_copy called directly;  *)
(* SpecAnalyze is ImageAnalyzer.analyze called on an image file described  *)
(* by the places of its markers; SpecMainWindow is the main window under   *)
(* the fairness of its event loop; SpecWorker is an AsyncWorker            *)
(* (utils/async_worker.py) with its thread and a cancelling thread.        *)
(*                                                                         *)
(* Sizes of install.wim are in MiB, sizes of the image handed to dd are in *)
(* blocks of IsoBlocks; the code works in bytes, and every input used here *)
(* is a whole number of these units, so the comparisons and the quotient   *)
(* bytes_written / iso_size are the ones the code computes.                *)
(***************************************************************************)
EXTENDS Integers, Sequences, FiniteSets, TLC

\* ---------------------------------------------------------------- bounds
\* progress lines read from dd's output in one run
MaxLines == 2
\* partitions already present on the target device (glob of device*[0-9])
MaxParts == 1
\* objects UDisks2 manages, and block devices lsblk lists
MaxObjects == 2

\* ------------------------------------------------------ program constants
ISO_TYPE_UNKNOWN == 0
ISO_TYPE_LINUX == 1
ISO_TYPE_WINDOWS == 2
\* 4 * 1024**3 bytes, in MiB
FourGiB == 4096
\* the leading window compared by LinuxWriteStrategy.validate, in bytes
ValidateWindow == 512
\* the ceiling of the dd progress percentage
PercentCap == 99

SCHEME_MBR == "mbr"
SCHEME_GPT == "gpt"
FS_FAT32 == "fat32"
FS_NTFS == "ntfs"
FS_EXFAT == "exfat"

Schemes == {SCHEME_MBR, SCHEME_GPT}
Filesystems == {FS_FAT32, FS_NTFS, FS_EXFAT}

\* ------------------------------------------------------------ environment
Outcomes == {"ok", "fail", "missing"}

\* size of the image in dd blocks: an empty file, or 32 blocks
IsoBlocks == 32
IsoSizes == {0, IsoBlocks}
\* byte counts (in blocks) that a dd progress line can report for an image
\* of the given size: the first block or all of it
DdReports(size) == IF size = 0 THEN {0} ELSE {1, size}
\* size of sources/install.wim as listed by 7z, in MiB: none, the 4 GiB
\* boundary itself, and one MiB more
WimSizes == {0, FourGiB, FourGiB + 1}

\* An image file. ext: the name ends in .iso or .img; readable: open() and
\* read() succeed; win: BOOTMGR or NTFS in the first 512 bytes of the 2048
\* byte window at offset 32768; linux: ISOLINUX, GRUB or LINUX in the
\* window; wim: the size 7z lists for install.wim / install.esd.
\* A missing, unreadable or empty file shows no marker, a file with another
\* extension is not looked into, and only a file with the Windows marker has
\* its archive listed.
Images ==
    { i \in [exists : BOOLEAN, ext : BOOLEAN, readable : BOOLEAN,
             win : BOOLEAN, linux : BOOLEAN, wim : WimSizes, size : IsoSizes] :
        /\ (~i.exists) => (i.ext /\ i.readable /\ ~i.win /\ ~i.linux
                            /\ i.wim = 0 /\ i.size = IsoBlocks)
        /\ (~i.readable) => (i.ext /\ ~i.win /\ ~i.linux /\ i.size = IsoBlocks)
        /\ (i.size = 0) => (~i.win /\ ~i.linux)
        /\ (~i.win) => (i.wim = 0)
        /\ (~i.ext) => (i.wim = 0 /\ ~i.win /\ ~i.linux /\ i.size = IsoBlocks) }

Min(a, b) == IF a <= b THEN a ELSE b

\* The bytes of a file, for validate: whether open() succeeds, the length,
\* and the positions whose byte is 1; every other byte is 0. The positions
\* are the first byte, the last byte of the window validate compares and the
\* first byte after it; the lengths lie around the window.
MarkPositions == {0, ValidateWindow - 1, ValidateWindow}
FileSizes == {0, ValidateWindow - 1, ValidateWindow, ValidateWindow + 1}
Files ==
    { f \in [readable : BOOLEAN, size : FileSizes, marks : SUBSET MarkPositions] :
        /\ \A p \in f.marks : p < f.size
        /\ (~f.readable) => (f.size = ValidateWindow + 1 /\ f.marks = {}) }

EmptyFile == [readable |-> TRUE, size |-> 0, marks |-> {}]
NoMedia == [iso |-> EmptyFile, device |-> EmptyFile]

\* The outcomes of a command that writes to the device: on a read-only
\* device it cannot end with exit status 0.
WriteOutcomes(ro) == IF ro THEN Outcomes \ {"ok"} ELSE Outcomes

\* One external command: tool and operation, its argument, and whether the
\* call site passes check=True (a non-zero exit raises CalledProcessError).
\* The argument of mkpart is <<filesystem type, start, end>>; the argument of
\* mkfs is the number of the partition; set acts on partition 1.
Cmd(tool, op, arg, check) ==
    [tool |-> tool, op |-> op, arg |-> arg, check |-> check]

\* A command of the history: the command and how it ended.
Ran(c, out) ==
    [tool |-> c.tool, op |-> c.op, arg |-> c.arg, check |-> c.check, out |-> out]

\* The invocations of a list of commands, without their outcomes. The callers
\* of the analyzer see only the value returned, so the history of a write
\* attempt keeps which probes were invoked there.
Invoked(rans) == [i \in 1..Len(rans) |-> [rans[i] EXCEPT !.out = "done"]]

\* A progress event as handed to WriteStrategy.update_progress.
Event(percent, msg) == [percent |-> percent, msg |-> msg]

VARIABLES
    front,          \* "cli", "gui": who drives the write; "unit": a direct call
                    \* of a public method; "helper": of a private one
    pc,             \* position of the control thread
    image,          \* the image file
    device_exists,  \* os.path.exists(device)
    device_ro,      \* the device is read-only (UDisks2 Block.ReadOnly)
    nparts,         \* partitions present on the device before the write
    is_root,        \* os.geteuid() == 0
    options,        \* args.scheme/fs/no_validate, or the settings panel
    gui,            \* the main window's widgets
    iso_info,       \* the analyzer's result kept by the caller
    strategy,       \* the strategy object selected: "none", "linux", "windows"
    run,            \* local variables of the running strategy method
    cmds,           \* external commands invoked in this attempt
    events,         \* progress events of this attempt
    result,         \* what strategy.write gave: "none", "true", "false", "raised"
    exit_code,      \* the CLI's exit code, -1 while it runs
    validated,      \* strategy.validate: "not_run", or what it returned
    media,          \* the bytes of the image file and of the device, as
                    \* validate reads them
    dm,             \* a call of a DiskManager method: what UDisks2 and the
                    \* fallback commands answer, and what the call returned
    env,            \* what the program has set up on the system: a loop
                    \* device, the scratch directory of an extraction, the
                    \* partitions mounted on temporary mount points
    worker          \* an AsyncWorker: its thread and the thread cancelling it

vars == <<front, pc, image, device_exists, device_ro, nparts, is_root, options, gui,
          iso_info, strategy, run, cmds, events, result, exit_code, validated,
          media, dm, env, worker>>

\* Nothing set up yet. loop: a loop device attached by an analysis is still
\* attached; scratch: the directory of _extract_and_copy ("none", "exists",
\* "removed"); mounted: the partitions of the device mounted on a temporary
\* mount point; wiped: the partitions whose mount point was recursively
\* deleted while they were mounted.
NoEnv == [loop |-> FALSE, scratch |-> "none", mounted |-> {}, wiped |-> {}]

\* An AsyncWorker that was constructed and not started, nobody cancelling.
NoWorker == [task |-> "bool_true", wpc |-> "not_started", cpc |-> "idle",
             is_cancelled |-> FALSE, signals |-> <<>>]

\* An analysis that left a loop device attached adds to the environment.
Attached(e, loop) == [e EXCEPT !.loop = e.loop \/ loop]

\* ------------------------------------------------------------ AsyncWorker
\* What task_func does: it returns a (success, message) tuple, a bool or
\* something else, or it raises an Exception.
Tasks == {"tuple_true", "tuple_false", "bool_true", "bool_false", "other", "raises"}

\* run, lines 36-41: the success flag taken from the task's result.
TaskSuccess(task) == task \in {"tuple_true", "bool_true", "other"}

\* The worker thread is inside run().
WorkerRunning ==
    worker.wpc \in {"task", "returned", "except", "emit_finished", "emit_error"}

\* WorkerManager.start_worker, line 73: the thread starts and run() calls
\* the task (lines 24-34).
WorkerStart ==
    /\ worker.wpc = "not_started"
    /\ worker' = [worker EXCEPT !.wpc = "task"]
    /\ UNCHANGED <<front, pc, device_ro, dm, env, validated, media, image, device_exists,
                   nparts, is_root, options, gui, iso_info, strategy, run, cmds, events,
                   result, exit_code>>

\* run, lines 34-41 and 46: the task returns and its result is unpacked, or
\* it raises and the handler is entered.
WorkerTask ==
    /\ worker.wpc = "task"
    /\ worker' = [worker EXCEPT !.wpc = IF worker.task = "raises"
                                         THEN "except" ELSE "returned"]
    /\ UNCHANGED <<front, pc, device_ro, dm, env, validated, media, image, device_exists,
                   nparts, is_root, options, gui, iso_info, strategy, run, cmds, events,
                   result, exit_code>>

\* run, lines 43 and 47: the worker thread reads is_cancelled.
WorkerTest ==
    /\ worker.wpc \in {"returned", "except"}
    /\ worker' = [worker EXCEPT !.wpc =
                     IF worker.is_cancelled THEN "done"
                     ELSE IF worker.wpc = "returned" THEN "emit_finished"
                     ELSE "emit_error"]
    /\ UNCHANGED <<front, pc, device_ro, dm, env, validated, media, image, device_exists,
                   nparts, is_root, options, gui, iso_info, strategy, run, cmds, events,
                   result, exit_code>>

\* run, lines 44 and 48: the signal is emitted; cancelled records what
\* is_cancelled is at that moment.
WorkerEmit ==
    /\ worker.wpc \in {"emit_finished", "emit_error"}
    /\ worker' = [worker EXCEPT
                     !.wpc = "done",
                     !.signals = Append(worker.signals,
                         [sig |-> IF worker.wpc = "emit_finished" THEN "finished" ELSE "error",
                          success |-> worker.wpc = "emit_finished" /\ TaskSuccess(worker.task),
                          cancelled |-> worker.is_cancelled])]
    /\ UNCHANGED <<front, pc, device_ro, dm, env, validated, media, image, device_exists,
                   nparts, is_root, options, gui, iso_info, strategy, run, cmds, events,
                   result, exit_code>>

\* cancel, line 52, called on another thread (WorkerManager.stop_all, line
\* 85): the flag is set.
CancelSetFlag ==
    /\ worker.cpc = "idle"
    /\ worker' = [worker EXCEPT !.is_cancelled = TRUE, !.cpc = "terminate"]
    /\ UNCHANGED <<front, pc, device_ro, dm, env, validated, media, image, device_exists,
                   nparts, is_root, options, gui, iso_info, strategy, run, cmds, events,
                   result, exit_code>>

\* cancel, line 53: QThread.terminate. The thread may or may not be stopped
\* at once.
CancelTerminate ==
    /\ worker.cpc = "terminate"
    /\ \E at_once \in BOOLEAN :
         worker' = [worker EXCEPT
                       !.cpc = "wait",
                       !.wpc = IF WorkerRunning /\ at_once THEN "terminated" ELSE @]
    /\ UNCHANGED <<front, pc, device_ro, dm, env, validated, media, image, device_exists,
                   nparts, is_root, options, gui, iso_info, strategy, run, cmds, events,
                   result, exit_code>>

\* The thread that terminate asked to stop is stopped.
WorkerTerminated ==
    /\ worker.cpc = "wait"
    /\ WorkerRunning
    /\ worker' = [worker EXCEPT !.wpc = "terminated"]
    /\ UNCHANGED <<front, pc, device_ro, dm, env, validated, media, image, device_exists,
                   nparts, is_root, options, gui, iso_info, strategy, run, cmds, events,
                   result, exit_code>>

\* cancel, line 54: wait returns once the thread has ended (or was never
\* started).
CancelWait ==
    /\ worker.cpc = "wait"
    /\ ~WorkerRunning
    /\ worker' = [worker EXCEPT !.cpc = "done"]
    /\ UNCHANGED <<front, pc, device_ro, dm, env, validated, media, image, device_exists,
                   nparts, is_root, options, gui, iso_info, strategy, run, cmds, events,
                   result, exit_code>>

\* ------------------------------------------------------------ DiskManager
\* One object of UDisks2's GetManagedObjects: the interfaces it has, the
\* object its Block.Drive names (0 for '/', the default), and its
\* Drive.Removable. Objects are numbered 1..n in the order of the dictionary;
\* a Drive reference may name an object that is not managed.
Interfaces == {"Block", "Partition", "Drive"}
ManagedObjects ==
    { o \in [ifaces : SUBSET Interfaces, drive : 0..MaxObjects, removable : BOOLEAN] :
        /\ ("Block" \notin o.ifaces) => (o.drive = 0)
        /\ ("Drive" \notin o.ifaces) => (o.removable = FALSE) }

\* One block device of lsblk's JSON: type == 'disk', pkname is None, and the
\* model: some text with one of the keywords usb/flash/cruzer ("usb"), some
\* text without ("other"), or null.
LsblkDevices == [disk : BOOLEAN, parentless : BOOLEAN, model : {"usb", "other", "null"}]

SeqsUpTo(S, n) == UNION { [1..m -> S] : m \in 0..n }

\* get_removable_disks, lines 57-92, for the objects from index i on: one
\* descriptor for every object with the Block interface whose Drive object
\* has the Drive interface and is removable, unless the object is a
\* partition. This variant leaves out the test of line 91, so partitions
\* are listed too; C18_RemovableDisks tells it from the program's.
RECURSIVE RemovableDisksWithPartitions(_, _)
RemovableDisksWithPartitions(objs, i) ==
    IF i > Len(objs) THEN <<>>
    ELSE LET o == objs[i]
             listed == /\ "Block" \in o.ifaces
                       /\ o.drive \in 1..Len(objs)
                       /\ "Drive" \in objs[o.drive].ifaces
                       /\ objs[o.drive].removable
         IN  (IF listed THEN <<[path |-> i]>> ELSE <<>>)
             \o RemovableDisksWithPartitions(objs, i + 1)

\* get_removable_disks, lines 57-92, for the objects from index i on.
RECURSIVE RemovableDisks(_, _)
RemovableDisks(objs, i) ==
    IF i > Len(objs) THEN <<>>
    ELSE LET o == objs[i]
             listed == /\ "Block" \in o.ifaces
                       /\ o.drive \in 1..Len(objs)
                       /\ "Drive" \in objs[o.drive].ifaces
                       /\ objs[o.drive].removable
                       /\ "Partition" \notin o.ifaces
         IN  (IF listed THEN <<[path |-> i]>> ELSE <<>>)
             \o RemovableDisks(objs, i + 1)

\* _get_disks_fallback, lines 113-126, for the devices from index i on;
\* "raised" when a device's model is null (None has no lower()).
RECURSIVE FallbackDisks(_, _)
FallbackDisks(devs, i) ==
    IF i > Len(devs) THEN <<>>
    ELSE LET d == devs[i]
             rest == FallbackDisks(devs, i + 1)
         IN  IF ~(d.disk /\ d.parentless) THEN rest
             ELSE IF d.model = "null" THEN "raised"
             ELSE IF rest = "raised" THEN "raised"
             ELSE (IF d.model = "usb" THEN <<[path |-> i]>> ELSE <<>>) \o rest

\* _get_disks_fallback: lsblk with check=True; every exception gives [].
GetDisksFallback(oLsblk, devs) ==
    IF oLsblk # "ok" THEN <<>>
    ELSE IF FallbackDisks(devs, 1) = "raised" THEN <<>>
    ELSE FallbackDisks(devs, 1)

\* get_removable_disks: the UDisks2 enumeration, or the fallback when
\* GetManagedObjects raises.
GetRemovableDisks(enum, objs, oLsblk, devs) ==
    IF enum = "ok" THEN RemovableDisks(objs, 1)
    ELSE GetDisksFallback(oLsblk, devs)

\* unmount_disk, lines 171-184: True when the UDisks2 unmount went through;
\* otherwise `umount` with check=True: True on exit status 0, False on
\* CalledProcessError; any other exception of subprocess.run (a missing
\* executable) is not caught.
UnmountDisk(udisks, oUmount) ==
    IF udisks = "ok" THEN "true"
    ELSE IF oUmount = "ok" THEN "true"
    ELSE IF oUmount = "fail" THEN "false"
    ELSE "raised"

NoDm == [call |-> "none", enum |-> "ok", objects |-> <<>>, lsblk |-> "ok",
         devices |-> <<>>, udisks |-> "ok", umount |-> "ok",
         returned |-> FALSE, value |-> <<>>]

\* A call of get_removable_disks.
DmGetRemovableDisks ==
    /\ pc = "dm_start"
    /\ dm.call = "get_removable_disks"
    /\ dm' = [dm EXCEPT !.returned = TRUE,
                        !.value = GetRemovableDisks(dm.enum, dm.objects,
                                                    dm.lsblk, dm.devices)]
    /\ pc' = "dm_return"
    /\ UNCHANGED <<front, device_ro, env, worker, validated, media, image, device_exists, nparts,
                   is_root, options, gui, iso_info, strategy, run, cmds, events,
                   result, exit_code>>

\* A call of unmount_disk.
DmUnmountDisk ==
    /\ pc = "dm_start"
    /\ dm.call = "unmount_disk"
    /\ dm' = [dm EXCEPT !.returned = TRUE,
                        !.value = UnmountDisk(dm.udisks, dm.umount)]
    /\ cmds' = IF dm.udisks = "ok" THEN cmds
               ELSE Append(cmds, Ran(Cmd("umount", "unmount", "device", TRUE), dm.umount))
    /\ pc' = "dm_return"
    /\ UNCHANGED <<front, device_ro, env, worker, validated, media, image, device_exists, nparts,
                   is_root, options, gui, iso_info, strategy, run, events,
                   result, exit_code>>

\* ------------------------------------------------------------- analyzer
\* ImageAnalyzer._check_hybrid: `file <iso>` with check=True; a non-zero
\* exit gives False, a missing executable raises out of analyze.
CheckHybridCmd == Cmd("file", "probe", "iso", TRUE)

\* ImageAnalyzer._check_windows_uefi: a fresh temporary directory, then
\* `udisksctl loop-setup` (check=True) and, when that succeeded,
\* `udisksctl loop-delete -b <temporary directory>` (unchecked). Nothing is
\* ever mounted on the temporary directory, so <directory>/efi does not
\* exist; every exception gives False as well.
CheckWindowsUefiProbes(oSetup, oDelete) ==
    LET setup == Cmd("udisksctl", "loop-setup", "iso", TRUE)
        delete == Cmd("udisksctl", "loop-delete", "tmpdir", FALSE)
    IN  IF oSetup = "ok" THEN <<Ran(setup, oSetup), Ran(delete, oDelete)>>
        ELSE <<Ran(setup, oSetup)>>

CheckWindowsUefi(oSetup, oDelete) == FALSE

\* _check_windows_uefi, lines 106-118: the loop device that loop-setup
\* attached is still attached when the method returns. loop-delete is given
\* the temporary directory, which is no block device, so whatever its exit
\* status it detaches nothing.
CheckWindowsUefiLoop(oSetup) == oSetup = "ok"

\* ImageAnalyzer._get_wim_size: `7z l <iso>` with check=True; the size column
\* of the install.wim / install.esd line, 0 when there is none or on any error.
GetWimSizeCmd == Cmd("7z", "l", "iso", TRUE)

GetWimSize(img, o7z) == IF o7z = "ok" THEN img.wim ELSE 0

\* ImageAnalyzer._identify_linux_distro: `file <iso>` again, every error caught.
IdentifyLinuxDistroCmd == Cmd("file", "distro", "iso", TRUE)

\* The outcomes of the probes an analysis of img makes; the outcome of a
\* probe that is not made is fixed to "ok".
AnalysisOutcomes(img) ==
    { o \in [file : Outcomes, setup : Outcomes, delete : Outcomes,
             sevenz : Outcomes, distro : Outcomes] :
        LET probed == img.exists /\ img.ext
            opened == probed /\ o.file # "missing" /\ img.readable
            isWin == opened /\ img.win
            isLin == opened /\ ~img.win /\ img.linux
        IN  /\ (~probed) => (o.file = "ok")
            /\ (~isWin) => (o.setup = "ok" /\ o.sevenz = "ok")
            /\ (~(isWin /\ o.setup = "ok")) => (o.delete = "ok")
            /\ (~isLin) => (o.distro = "ok") }

\* ImageAnalyzer.analyze. raised: the call raised (FileNotFoundError for a
\* missing image or a missing `file` executable); info: the dictionary
\* returned; probes: the external commands it invoked, in order; loop: it
\* left a loop device attached.
Analyze(img, o) ==
    LET unknown == [type |-> ISO_TYPE_UNKNOWN, requires_uefi |-> FALSE,
                    wim_size |-> 0, size |-> img.size]
    IN  IF ~img.exists
        THEN [raised |-> TRUE, loop |-> FALSE, info |-> unknown, probes |-> <<>>]
        ELSE IF ~img.ext
        THEN [raised |-> FALSE, loop |-> FALSE, info |-> unknown, probes |-> <<>>]
        ELSE IF o.file = "missing"
        THEN [raised |-> TRUE, loop |-> FALSE, info |-> unknown,
              probes |-> <<Ran(CheckHybridCmd, o.file)>>]
        ELSE IF ~img.readable
        THEN [raised |-> FALSE, loop |-> FALSE, info |-> unknown,
              probes |-> <<Ran(CheckHybridCmd, o.file)>>]
        ELSE IF img.win
        THEN [raised |-> FALSE, loop |-> CheckWindowsUefiLoop(o.setup),
              info |-> [type |-> ISO_TYPE_WINDOWS,
                        requires_uefi |-> CheckWindowsUefi(o.setup, o.delete),
                        wim_size |-> GetWimSize(img, o.sevenz),
                        size |-> img.size],
              probes |-> <<Ran(CheckHybridCmd, o.file)>>
                         \o CheckWindowsUefiProbes(o.setup, o.delete)
                         \o <<Ran(GetWimSizeCmd, o.sevenz)>>]
        ELSE IF img.linux
        THEN [raised |-> FALSE, loop |-> FALSE,
              info |-> [type |-> ISO_TYPE_LINUX, requires_uefi |-> FALSE,
                        wim_size |-> 0, size |-> img.size],
              probes |-> <<Ran(CheckHybridCmd, o.file),
                           Ran(IdentifyLinuxDistroCmd, o.distro)>>]
        ELSE [raised |-> FALSE, loop |-> FALSE, info |-> unknown,
              probes |-> <<Ran(CheckHybridCmd, o.file)>>]

NoInfo == [type |-> ISO_TYPE_UNKNOWN, requires_uefi |-> FALSE, wim_size |-> 0, size |-> 0]

\* Where a marker lies in the file: in the first 512 bytes of the 2048 bytes
\* read at offset 32768 ("head"), in the rest of them ("tail"), elsewhere in
\* the file ("outside"), or nowhere ("none").
MarkerPlaces == {"none", "head", "tail", "outside"}

\* A test that finds the Windows markers anywhere in the window.
\* C27_ClassifyGated tells it from the program's.
WindowsMarkerSeenInWindow(at) == at \in {"head", "tail"}

\* analyze, line 67: b'BOOTMGR' in data[:512] or b'NTFS' in data[:512]
WindowsMarkerSeen(at) == at = "head"

\* analyze, line 74: b'ISOLINUX' in data or b'GRUB' in data or b'LINUX' in data
LinuxMarkerSeen(at) == at \in {"head", "tail"}

\* _check_hybrid, lines 86-95: 'hybrid' in the output of `file`, False
\* when `file` exits non-zero.
CheckHybrid(says_hybrid, oFile) == oFile = "ok" /\ says_hybrid

\* An image file described by where its markers lie and what `file` says
\* of it; win and linux are what the tests of lines 67 and 74 give on it.
MarkedImages ==
    { f \in [exists : BOOLEAN, ext : BOOLEAN, readable : BOOLEAN,
             win_at : MarkerPlaces, linux_at : MarkerPlaces, hybrid : BOOLEAN,
             win : BOOLEAN, linux : BOOLEAN, wim : {0}, size : {IsoBlocks}] :
        /\ f.win = WindowsMarkerSeen(f.win_at)
        /\ f.linux = LinuxMarkerSeen(f.linux_at)
        /\ (~f.exists) => (f.ext /\ f.readable /\ ~f.hybrid
                            /\ f.win_at = "none" /\ f.linux_at = "none") }

\* A direct call of ImageAnalyzer.analyze(iso_path).
AnalyzeCall ==
    /\ pc = "an_start"
    /\ \E o \in AnalysisOutcomes(image) :
         LET r == Analyze(image, o)
         IN  /\ cmds' = cmds \o r.probes
             /\ env' = Attached(env, r.loop)
             /\ IF r.raised
                THEN /\ pc' = "an_raised"
                     /\ UNCHANGED iso_info
                ELSE /\ pc' = "an_return"
                     /\ iso_info' = [type |-> r.info.type,
                                     requires_uefi |-> r.info.requires_uefi,
                                     wim_size |-> r.info.wim_size,
                                     size |-> r.info.size,
                                     is_hybrid |-> CheckHybrid(image.hybrid, o.file)]
    /\ UNCHANGED <<front, device_ro, dm, worker, validated, media, image, device_exists,
                   nparts, is_root, options, gui, strategy, run, events, result,
                   exit_code>>

\* --------------------------------------------------- strategy selection
\* A selection that looks at the payload: the Windows strategy only for a
\* Windows image whose install.wim exceeds 4 GiB. The program does not
\* select like this; C10_SelectionByType tells the two apart.
SelectStrategyBySize(info) ==
    IF info.type = ISO_TYPE_WINDOWS /\ info.wim_size > FourGiB
    THEN "windows" ELSE "linux"

\* run_write / perform_write: `if iso_type == 2` picks WindowsWriteStrategy,
\* everything else LinuxWriteStrategy.
SelectStrategy(info) ==
    IF info.type = ISO_TYPE_WINDOWS THEN "windows" ELSE "linux"

\* ------------------------------------------------------------ privileges
\* A privilege check that reports True whatever pkexec or sudo answered. The
\* program does not do this; C14_PrivilegeFirst tells the two apart.
RequestPermissionsGranted(root, oPkexec, oSudo) ==
    LET pk == Cmd("pkexec", "echo", "test", FALSE)
        su == Cmd("sudo", "-v", "", FALSE)
    IN  IF root THEN [granted |-> TRUE, probes |-> <<>>]
        ELSE IF oPkexec # "missing"
        THEN [granted |-> TRUE, probes |-> <<Ran(pk, oPkexec)>>]
        ELSE IF oSudo # "missing"
        THEN [granted |-> TRUE, probes |-> <<Ran(su, oSudo)>>]
        ELSE [granted |-> TRUE, probes |-> <<>>]

\* PermissionManager.request_permissions: root needs nothing; otherwise
\* `pkexec echo test` when pkexec is installed, else `sudo -v` when sudo is
\* installed, else False. A missing executable is what __init__ found when
\* it probed `pkexec --version` / `sudo --version`.
RequestPermissions(root, oPkexec, oSudo) ==
    LET pk == Cmd("pkexec", "echo", "test", FALSE)
        su == Cmd("sudo", "-v", "", FALSE)
    IN  IF root THEN [granted |-> TRUE, probes |-> <<>>]
        ELSE IF oPkexec # "missing"
        THEN [granted |-> oPkexec = "ok", probes |-> <<Ran(pk, oPkexec)>>]
        ELSE IF oSudo # "missing"
        THEN [granted |-> oSudo = "ok", probes |-> <<Ran(su, oSudo)>>]
        ELSE [granted |-> FALSE, probes |-> <<>>]

PermissionOutcomes(root) ==
    { o \in [pkexec : Outcomes, sudo : Outcomes] :
        /\ root => (o.pkexec = "ok" /\ o.sudo = "ok")
        /\ (o.pkexec # "missing") => (o.sudo = "ok") }

\* ------------------------------------------------------ progress events
\* WriteStrategy.update_progress: the callback is set by both callers
\* before write, so every call reaches it.
UpdateProgress(evs, percent, msg) == Append(evs, Event(percent, msg))

\* The messages with which the strategies report a failure.
FailureMsgs == {"Device not found", "Formatting failed", "dd failed",
                "Error during write", "Unexpected error", "Error"}

IsFailureEvent(e) == e.msg \in FailureMsgs

\* options.get(key, default) on the dictionaries the callers build: neither
\* run_write nor SettingsPanel.get_settings sets 'format' or 'uefi'.
OptionsGetFormat(opts) == IF "format" \in DOMAIN opts THEN opts["format"] ELSE TRUE
OptionsGetUefi(opts) == IF "uefi" \in DOMAIN opts THEN opts["uefi"] ELSE TRUE

\* Local variables of a strategy run.
NoRun == [k |-> 0, lines |-> 0, bytes |-> 0, needs_split |-> FALSE, scheme |-> "none"]

\* -------------------------------------------------- LinuxWriteStrategy
\* The outcomes of the unmount commands of _unmount_device on a device with
\* n partitions: one command for the device and one per partition; a
\* missing udisksctl raises, which ends the method (except Exception: pass).
UnmountOutcomes(n) ==
    { s \in UNION { [1..m -> Outcomes] : m \in 1..(n + 1) } :
        /\ \A i \in 1..(Len(s) - 1) : s[i] # "missing"
        /\ (Len(s) < n + 1) => (s[Len(s)] = "missing") }

UnmountCmd(i) ==
    Cmd("udisksctl", "unmount", IF i = 1 THEN "device" ELSE "part", FALSE)

UnmountDevice(outs) == [i \in 1..Len(outs) |-> Ran(UnmountCmd(i), outs[i])]

\* The mkfs command _format_device runs for a filesystem, if any.
LinuxMkfsCmds(fs) ==
    IF fs = FS_FAT32 THEN <<Cmd("mkfs.fat", "mkfs", "1", TRUE)>>
    ELSE IF fs = FS_NTFS THEN <<Cmd("mkfs.ntfs", "mkfs", "1", TRUE)>>
    ELSE IF fs = FS_EXFAT THEN <<Cmd("mkfs.exfat", "mkfs", "1", TRUE)>>
    ELSE <<>>

\* The commands of LinuxWriteStrategy._format_device, in program order.
LinuxFormatCmds(scheme, fs) ==
    <<Cmd("parted", "mklabel", scheme, TRUE),
      Cmd("parted", "mkpart", <<fs, "0%", "100%">>, TRUE)>>
    \o (IF scheme = SCHEME_MBR THEN <<Cmd("parted", "set", "boot", TRUE)>> ELSE <<>>)
    \o LinuxMkfsCmds(fs)

DdCmd == Cmd("dd", "copy", "device", FALSE)
SyncCmd == Cmd("sync", "sync", "", FALSE)

\* percent = min(99, int((bytes_written / iso_size) * 100))
DdPercent(bytes_written, iso_size) ==
    Min(PercentCap, (bytes_written * 100) \div iso_size)

\* The percent and message announced once dd has exited with status 0.
DdCompleted(evs) == UpdateProgress(evs, 100, "Write completed successfully")

\* strategy.write returns (or raises) to its caller.
Return(r) ==
    /\ result' = r
    /\ pc' = "write_return"

\* write, lines 33-38: the first event and the device check.
LinuxStart ==
    /\ pc = "lw_start"
    /\ IF ~device_exists
       THEN /\ events' = UpdateProgress(
                             UpdateProgress(events, 0, "Starting Linux ISO write..."),
                             0, "Device not found")
            /\ Return("false")
       ELSE /\ events' = UpdateProgress(events, 0, "Starting Linux ISO write...")
            /\ pc' = "lw_unmount"
            /\ UNCHANGED result
    /\ UNCHANGED <<front, device_ro, dm, env, worker, validated, media, image, device_exists, nparts, is_root, options, gui,
                   iso_info, strategy, run, cmds, exit_code>>

\* write, line 41: _unmount_device, best effort.
LinuxUnmount ==
    /\ pc = "lw_unmount"
    /\ \E outs \in UnmountOutcomes(nparts) :
         cmds' = cmds \o UnmountDevice(outs)
    /\ pc' = "lw_getsize"
    /\ UNCHANGED <<front, device_ro, dm, env, worker, validated, media, image, device_exists, nparts, is_root, options, gui,
                   iso_info, strategy, run, events, result, exit_code>>

\* write, lines 44-49 and _format_device, lines 146-149: os.path.getsize
\* raises for a missing image; formatting is on unless options say otherwise.
LinuxFormatBegin ==
    /\ pc = "lw_getsize"
    /\ IF ~image.exists
       THEN /\ Return("raised")
            /\ UNCHANGED <<run, events>>
       ELSE IF OptionsGetFormat(options)
       THEN /\ events' = UpdateProgress(events, 0, "Formatting...")
            /\ run' = [run EXCEPT !.k = 1, !.scheme = options.scheme]
            /\ pc' = "lw_format"
            /\ UNCHANGED result
       ELSE /\ pc' = "lw_dd"
            /\ UNCHANGED <<run, events, result>>
    /\ UNCHANGED <<front, device_ro, dm, env, worker, validated, media, image, device_exists, nparts, is_root, options, gui,
                   iso_info, strategy, cmds, exit_code>>

\* _format_device, lines 151-183: the next command of the formatting; a
\* non-zero exit is caught and reported, a missing executable is not caught.
LinuxFormatStep ==
    /\ pc = "lw_format"
    /\ LET plan == LinuxFormatCmds(run.scheme, options.filesystem)
       IN  IF run.k > Len(plan)
           THEN /\ events' = UpdateProgress(events, 2, "Formatting completed")
                /\ pc' = "lw_dd"
                /\ UNCHANGED <<run, cmds, result>>
           ELSE \E out \in WriteOutcomes(device_ro) :
                  /\ cmds' = Append(cmds, Ran(plan[run.k], out))
                  /\ IF out = "ok"
                     THEN /\ run' = [run EXCEPT !.k = run.k + 1]
                          /\ UNCHANGED <<pc, events, result>>
                     ELSE IF out = "fail"
                     THEN /\ events' = UpdateProgress(events, 0, "Formatting failed")
                          /\ Return("false")
                          /\ UNCHANGED run
                     ELSE /\ Return("raised")
                          /\ UNCHANGED <<run, events>>
    /\ UNCHANGED <<front, device_ro, dm, env, worker, validated, media, image, device_exists, nparts, is_root, options, gui,
                   iso_info, strategy, exit_code>>

\* write, lines 53-76: the announcement and the start of dd.
LinuxDdStart ==
    /\ pc = "lw_dd"
    /\ \E out \in {"running", "missing"} :
         /\ cmds' = Append(cmds, Ran(DdCmd, out))
         /\ IF out = "missing"
            THEN /\ events' = UpdateProgress(
                                  UpdateProgress(events, 5, "Writing..."),
                                  0, "Unexpected error")
                 /\ Return("false")
                 /\ UNCHANGED run
            ELSE /\ events' = UpdateProgress(events, 5, "Writing...")
                 /\ run' = [run EXCEPT !.lines = 0, !.bytes = 0]
                 /\ pc' = "lw_lines"
                 /\ UNCHANGED result
    /\ UNCHANGED <<front, device_ro, dm, env, worker, validated, media, image, device_exists, nparts, is_root, options, gui,
                   iso_info, strategy, exit_code>>

\* write, lines 79-91: one progress line of dd's output, reporting the bytes
\* written so far (nothing for an empty image). A line without 'bytes', or
\* one whose first word is no number, changes nothing and is a stuttering
\* step. Dividing by the size of an empty image raises ZeroDivisionError,
\* which the outer handler reports. On a read-only device dd cannot open
\* its output and reports no progress.
LinuxDdLine ==
    /\ pc = "lw_lines"
    /\ run.lines < MaxLines
    /\ ~device_ro
    /\ \E b \in DdReports(image.size) :
         /\ b >= run.bytes
         /\ IF image.size = 0
            THEN /\ events' = UpdateProgress(events, 0, "Unexpected error")
                 /\ Return("false")
                 /\ UNCHANGED run
            ELSE /\ events' = UpdateProgress(events,
                                  DdPercent(b, image.size), "Writing: %")
                 /\ run' = [run EXCEPT !.lines = run.lines + 1, !.bytes = b]
                 /\ UNCHANGED <<pc, result>>
    /\ UNCHANGED <<front, device_ro, dm, env, worker, validated, media, image, device_exists, nparts, is_root, options, gui,
                   iso_info, strategy, cmds, exit_code>>

\* write, lines 94-104: dd's output ends, wait() gives its exit status.
LinuxDdWait ==
    /\ pc = "lw_lines"
    /\ \E out \in WriteOutcomes(device_ro) \ {"missing"} :
         /\ cmds' = [cmds EXCEPT ![Len(cmds)] = Ran(DdCmd, out)]
         /\ IF out = "ok"
            THEN /\ events' = DdCompleted(events)
                 /\ pc' = "lw_sync"
                 /\ UNCHANGED result
            ELSE /\ events' = UpdateProgress(events, 0, "dd failed")
                 /\ Return("false")
    /\ UNCHANGED <<front, device_ro, dm, env, worker, validated, media, image, device_exists, nparts, is_root, options, gui,
                   iso_info, strategy, run, exit_code>>

\* write, lines 99-101 and 109-111: sync with check=False; a missing sync
\* raises FileNotFoundError into the outer handler.
LinuxSync ==
    /\ pc = "lw_sync"
    /\ \E out \in Outcomes :
         /\ cmds' = Append(cmds, Ran(SyncCmd, out))
         /\ IF out = "missing"
            THEN /\ events' = UpdateProgress(events, 0, "Unexpected error")
                 /\ Return("false")
            ELSE /\ Return("true")
                 /\ UNCHANGED events
    /\ UNCHANGED <<front, device_ro, dm, env, worker, validated, media, image, device_exists, nparts, is_root, options, gui,
                   iso_info, strategy, run, exit_code>>

\* validate, lines 113-126: f.read(512) on a file gives its first 512 bytes,
\* or all of it when it is shorter.
ReadBytes(f, n) ==
    [len |-> Min(n, f.size), marks |-> {p \in f.marks : p < n}]

\* A validate that compares one byte less than the program does.
\* C9_ValidateComparesWindow tells the two apart.
LinuxValidateShortWindow(iso, dev) ==
    IF ~iso.readable \/ ~dev.readable
    THEN FALSE
    ELSE ReadBytes(iso, ValidateWindow - 1) = ReadBytes(dev, ValidateWindow - 1)

\* LinuxWriteStrategy.validate: the first 512 bytes of both files are read
\* and compared; any exception (a file that cannot be opened) gives False.
LinuxValidate(iso, dev) ==
    IF ~iso.readable \/ ~dev.readable
    THEN FALSE
    ELSE ReadBytes(iso, ValidateWindow) = ReadBytes(dev, ValidateWindow)

\* A direct call of LinuxWriteStrategy.validate(iso_path, device).
LinuxValidateCall ==
    /\ pc = "lv_start"
    /\ validated' = IF LinuxValidate(media.iso, media.device) THEN "true" ELSE "false"
    /\ pc' = "lv_return"
    /\ UNCHANGED <<front, device_ro, dm, env, worker, media, image, device_exists, nparts, is_root, options, gui,
                   iso_info, strategy, run, cmds, events, result, exit_code>>

LinuxWrite ==
    \/ LinuxStart
    \/ LinuxUnmount
    \/ LinuxFormatBegin
    \/ LinuxFormatStep
    \/ LinuxDdStart
    \/ LinuxDdLine
    \/ LinuxDdWait
    \/ LinuxSync

\* ------------------------------------------------ WindowsWriteStrategy
\* write, lines 53-54: needs_split = wim_size > 4 * 1024**3
NeedsSplit(wim_size) == wim_size > FourGiB

\* write, lines 45-54: the first event, a second analysis of the image and
\* needs_split = wim_size > 4 * 1024**3.
WindowsStart ==
    /\ pc = "ww_start"
    /\ \E o \in AnalysisOutcomes(image) :
         LET r == Analyze(image, o)
         IN  /\ events' = UpdateProgress(events, 0, "Preparing Windows ISO...")
             /\ cmds' = cmds \o Invoked(r.probes)
             /\ env' = Attached(env, r.loop)
             /\ IF r.raised
                THEN /\ Return("raised")
                     /\ UNCHANGED run
                ELSE /\ run' = [run EXCEPT !.needs_split = NeedsSplit(r.info.wim_size)]
                     /\ pc' = "ww_unmount"
                     /\ UNCHANGED result
    /\ UNCHANGED <<front, device_ro, dm, worker, validated, media, image, device_exists, nparts, is_root, options, gui,
                   iso_info, strategy, exit_code>>

\* write, line 57: self._unmount_device(device). Neither WindowsWriteStrategy
\* nor its base class WriteStrategy defines _unmount_device, so the call
\* raises AttributeError and write ends there.
WindowsUnmount ==
    /\ pc = "ww_unmount"
    /\ Return("raised")
    /\ UNCHANGED <<front, device_ro, dm, env, worker, validated, media, image, device_exists, nparts, is_root, options, gui,
                   iso_info, strategy, run, cmds, events, exit_code>>

WindowsWrite ==
    \/ WindowsStart
    \/ WindowsUnmount

\* _format_for_windows, lines 96-101: the requested scheme, replaced by GPT
\* when the options ask for UEFI (the default).
WindowsSchemeAsRequested(opts) == opts.scheme

WindowsScheme(opts) ==
    IF OptionsGetUefi(opts) /\ opts.scheme # SCHEME_GPT
    THEN SCHEME_GPT ELSE opts.scheme

\* _create_single_partition, lines 124-141: one NTFS partition.
WindowsSingleCmds(scheme) ==
    <<Cmd("parted", "mkpart", <<FS_NTFS, "0%", "100%">>, TRUE),
      Cmd("parted", "set", IF scheme = SCHEME_GPT THEN "esp" ELSE "boot", TRUE),
      Cmd("mkfs.ntfs", "mkfs", "1", TRUE)>>

\* _create_dual_partitions, lines 143-157: a FAT32 boot partition and an
\* NTFS partition for the installation files.
WindowsDualCmds ==
    <<Cmd("parted", "mkpart", <<FS_FAT32, "0%", "1GB">>, TRUE),
      Cmd("parted", "set", "esp", TRUE),
      Cmd("mkfs.fat", "mkfs", "1", TRUE),
      Cmd("parted", "mkpart", <<FS_NTFS, "1GB", "100%">>, TRUE),
      Cmd("mkfs.ntfs", "mkfs", "2", TRUE)>>

\* A partitioning that stops after the FAT32 boot partition when the image
\* needs the split. C2_NeverFat32Alone tells it from the program's.
WindowsPartitionCmdsBootOnly(needs_split, scheme) ==
    IF needs_split THEN SubSeq(WindowsDualCmds, 1, 3) ELSE WindowsSingleCmds(scheme)

\* A partitioning that makes the single NTFS partition whatever the size of
\* the payload. C11_WindowsPartitions tells it from the program's.
WindowsPartitionCmdsSingle(needs_split, scheme) == WindowsSingleCmds(scheme)

\* _format_for_windows, lines 109-115
WindowsPartitionCmds(needs_split, scheme) ==
    IF needs_split THEN WindowsDualCmds ELSE WindowsSingleCmds(scheme)

\* The commands of _format_for_windows, in program order.
WindowsFormatCmds(scheme, needs_split) ==
    <<Cmd("parted", "mklabel", scheme, TRUE)>>
    \o WindowsPartitionCmds(needs_split, scheme)

\* _format_for_windows, lines 95-103: the scheme and the first events.
WindowsFormatBegin ==
    /\ pc = "wf_start"
    /\ events' = UpdateProgress(
                     IF OptionsGetUefi(options) /\ options.scheme # SCHEME_GPT
                     THEN UpdateProgress(events, 0, "UEFI requires GPT partition scheme")
                     ELSE events,
                     5, "Creating partition table...")
    /\ run' = [run EXCEPT !.k = 1, !.scheme = WindowsScheme(options)]
    /\ pc' = "wf_cmds"
    /\ UNCHANGED <<front, device_ro, dm, env, worker, validated, media, image, device_exists, nparts, is_root,
                   options, gui, iso_info, strategy, cmds, result, exit_code>>

\* _format_for_windows, lines 105-122: the next command; a non-zero exit is
\* caught and reported, a missing executable raises out of the method.
WindowsFormatStep ==
    /\ pc = "wf_cmds"
    /\ LET plan == WindowsFormatCmds(run.scheme, run.needs_split)
       IN  IF run.k > Len(plan)
           THEN /\ events' = UpdateProgress(events, 10, "Formatting completed")
                /\ result' = "true"
                /\ pc' = "wf_return"
                /\ UNCHANGED <<run, cmds>>
           ELSE \E out \in Outcomes :
                  /\ cmds' = Append(cmds, Ran(plan[run.k], out))
                  /\ IF out = "ok"
                     THEN /\ run' = [run EXCEPT !.k = run.k + 1]
                          /\ UNCHANGED <<pc, events, result>>
                     ELSE IF out = "fail"
                     THEN /\ events' = UpdateProgress(events, 0, "Formatting failed")
                          /\ result' = "false"
                          /\ pc' = "wf_return"
                          /\ UNCHANGED run
                     ELSE /\ result' = "raised"
                          /\ pc' = "wf_return"
                          /\ UNCHANGED <<run, events>>
    /\ UNCHANGED <<front, device_ro, dm, env, worker, validated, media, image, device_exists, nparts, is_root,
                   options, gui, iso_info, strategy, exit_code>>

\* ------------------------------------------- _extract_and_copy and helpers
\* _copy_boot_files, _copy_install_files and _copy_all_files on partition p:
\* a fresh mount point, mount (check=True), the copy, umount (check=True),
\* and in `finally` the recursive delete of the mount point. copied: the
\* shutil copy went through. raised: the helper raised; mounted: the
\* partition is still mounted when it returns.
MountedCopy(p, oMount, copied, oUmount) ==
    LET mount == Ran(Cmd("mount", "mount", p, TRUE), oMount)
        umount == Ran(Cmd("umount", "umount", p, TRUE), oUmount)
    IN  IF oMount # "ok"
        THEN [cmds |-> <<mount>>, raised |-> TRUE, mounted |-> FALSE]
        ELSE IF ~copied
        THEN [cmds |-> <<mount>>, raised |-> TRUE, mounted |-> TRUE]
        ELSE [cmds |-> <<mount, umount>>, raised |-> oUmount # "ok",
              mounted |-> oUmount # "ok"]

\* _install_grub on partition 1, lines 303-330: mount (check=True), the
\* grub.cfg written, grub-install (unchecked), umount (check=True), and in
\* `finally` the recursive delete of the mount point.
InstallGrub(oMount, written, oGrub, oUmount) ==
    LET mount == Ran(Cmd("mount", "mount", "1", TRUE), oMount)
        grub == Ran(Cmd("grub-install", "install", "1", FALSE), oGrub)
        umount == Ran(Cmd("umount", "umount", "1", TRUE), oUmount)
    IN  IF oMount # "ok"
        THEN [cmds |-> <<mount>>, raised |-> TRUE, mounted |-> FALSE]
        ELSE IF ~written
        THEN [cmds |-> <<mount>>, raised |-> TRUE, mounted |-> TRUE]
        ELSE IF oGrub = "missing"
        THEN [cmds |-> <<mount, grub>>, raised |-> TRUE, mounted |-> TRUE]
        ELSE [cmds |-> <<mount, grub, umount>>, raised |-> oUmount # "ok",
              mounted |-> oUmount # "ok"]

\* The outcomes of a helper's steps; a step that is not reached is "ok"/TRUE.
HelperOutcomes ==
    { h \in [mount : Outcomes, done : BOOLEAN, grub : Outcomes, umount : Outcomes] :
        /\ (h.mount # "ok") => (h.done /\ h.grub = "ok" /\ h.umount = "ok")
        /\ (~h.done) => (h.grub = "ok" /\ h.umount = "ok")
        /\ (h.grub = "missing") => (h.umount = "ok") }

\* shutil.rmtree(mount_point, ignore_errors=True) in the `finally` of a
\* helper on partition n: when the partition is still mounted there, what
\* is deleted is the partition's content.
AfterHelper(e, n, mounted) ==
    IF mounted
    THEN [e EXCEPT !.mounted = e.mounted \cup {n}, !.wiped = e.wiped \cup {n}]
    ELSE e

\* A `finally` that leaves the scratch directory in place.
\* C25_ScratchRemoved tells it from the program's.
RemoveScratchNever(e) == e

\* _extract_and_copy, lines 205-207: shutil.rmtree(temp_dir) in `finally`;
\* the directory holds the files 7z wrote, which the process may delete.
RemoveScratch(e) == [e EXCEPT !.scratch = "removed"]

\* _extract_and_copy, lines 161-164: the scratch directory and the first event.
ExtractBegin ==
    /\ pc = "xc_start"
    /\ env' = [env EXCEPT !.scratch = "exists"]
    /\ events' = UpdateProgress(events, 15, "Extracting ISO files...")
    /\ pc' = "xc_extract"
    /\ UNCHANGED <<run, cmds, result>>
    /\ UNCHANGED <<front, device_ro, dm, worker, validated, media, image, device_exists,
                   nparts, is_root, options, gui, iso_info, strategy, exit_code>>

\* _extract_and_copy, lines 202-207: the handler of every exception and the
\* `finally`.
ExtractFailed(e) ==
    /\ events' = UpdateProgress(events, 0, "Error")
    /\ result' = "false"
    /\ env' = RemoveScratch(e)
    /\ pc' = "xc_return"

\* _extract_and_copy, lines 167-189: 7z x (check=True), then the way on:
\* the split when needs_split and sources/install.wim was extracted, else
\* the copies.
Extract7z ==
    /\ pc = "xc_extract"
    /\ \E out \in Outcomes, wim_found \in BOOLEAN :
         /\ cmds' = Append(cmds, Ran(Cmd("7z", "x", "iso", TRUE), out))
         /\ IF out # "ok"
            THEN ExtractFailed(env)
            ELSE /\ UNCHANGED <<env, result>>
                 /\ IF run.needs_split /\ wim_found
                    THEN /\ events' = UpdateProgress(events, 30, "Splitting large WIM file...")
                         /\ pc' = "xc_split"
                    ELSE IF run.needs_split
                    THEN /\ events' = UpdateProgress(events, 50, "Copying boot files...")
                         /\ pc' = "xc_copy_boot"
                    ELSE /\ events' = UpdateProgress(events, 60, "Copying files to USB...")
                         /\ pc' = "xc_copy_all"
    /\ UNCHANGED run
    /\ UNCHANGED <<front, device_ro, dm, worker, validated, media, image, device_exists,
                   nparts, is_root, options, gui, iso_info, strategy, exit_code>>

\* _split_wim_file, lines 209-225: wimlib-imagex split (check=True) and the
\* removal of the original; every exception is passed over.
ExtractSplit ==
    /\ pc = "xc_split"
    /\ \E out \in Outcomes :
         cmds' = Append(cmds, Ran(Cmd("wimlib-imagex", "split", "wim", TRUE), out))
    /\ events' = UpdateProgress(events, 50, "Copying boot files...")
    /\ pc' = "xc_copy_boot"
    /\ UNCHANGED <<run, env, result>>
    /\ UNCHANGED <<front, device_ro, dm, worker, validated, media, image, device_exists,
                   nparts, is_root, options, gui, iso_info, strategy, exit_code>>

\* _extract_and_copy, lines 181-185: _copy_boot_files on partition 1, then
\* the event of the second copy.
ExtractCopyBoot ==
    /\ pc = "xc_copy_boot"
    /\ \E h \in {g \in HelperOutcomes : g.grub = "ok"} :
         LET r == MountedCopy("1", h.mount, h.done, h.umount)
         IN  /\ cmds' = cmds \o r.cmds
             /\ IF r.raised
                THEN ExtractFailed(AfterHelper(env, 1, r.mounted))
                ELSE /\ events' = UpdateProgress(events, 70, "Copying installation files...")
                     /\ pc' = "xc_copy_install"
                     /\ UNCHANGED <<env, result>>
    /\ UNCHANGED run
    /\ UNCHANGED <<front, device_ro, dm, worker, validated, media, image, device_exists,
                   nparts, is_root, options, gui, iso_info, strategy, exit_code>>

\* _extract_and_copy, lines 185-191: _copy_install_files on partition 2.
ExtractCopyInstall ==
    /\ pc = "xc_copy_install"
    /\ \E h \in {g \in HelperOutcomes : g.grub = "ok"} :
         LET r == MountedCopy("2", h.mount, h.done, h.umount)
         IN  /\ cmds' = cmds \o r.cmds
             /\ IF r.raised
                THEN ExtractFailed(AfterHelper(env, 2, r.mounted))
                ELSE /\ events' = UpdateProgress(events, 95, "Finalizing...")
                     /\ pc' = "xc_bootloader"
                     /\ UNCHANGED <<env, result>>
    /\ UNCHANGED run
    /\ UNCHANGED <<front, device_ro, dm, worker, validated, media, image, device_exists,
                   nparts, is_root, options, gui, iso_info, strategy, exit_code>>

\* _extract_and_copy, lines 189-191: _copy_all_files on the single partition.
ExtractCopyAll ==
    /\ pc = "xc_copy_all"
    /\ \E h \in {g \in HelperOutcomes : g.grub = "ok"} :
         LET r == MountedCopy("1", h.mount, h.done, h.umount)
         IN  /\ cmds' = cmds \o r.cmds
             /\ IF r.raised
                THEN ExtractFailed(AfterHelper(env, 1, r.mounted))
                ELSE /\ events' = UpdateProgress(events, 95, "Finalizing...")
                     /\ pc' = "xc_bootloader"
                     /\ UNCHANGED <<env, result>>
    /\ UNCHANGED run
    /\ UNCHANGED <<front, device_ro, dm, worker, validated, media, image, device_exists,
                   nparts, is_root, options, gui, iso_info, strategy, exit_code>>

\* _install_bootloader, lines 288-299: _install_grub on partition 1 of a
\* dual layout, nothing otherwise; every exception is passed over.
ExtractBootloader ==
    /\ pc = "xc_bootloader"
    /\ IF run.needs_split
       THEN \E h \in HelperOutcomes :
              LET r == InstallGrub(h.mount, h.done, h.grub, h.umount)
              IN  /\ cmds' = cmds \o r.cmds
                  /\ env' = AfterHelper(env, 1, r.mounted)
       ELSE UNCHANGED <<cmds, env>>
    /\ pc' = "xc_sync"
    /\ UNCHANGED <<run, events, result>>
    /\ UNCHANGED <<front, device_ro, dm, worker, validated, media, image, device_exists,
                   nparts, is_root, options, gui, iso_info, strategy, exit_code>>

\* _extract_and_copy, lines 197-207: sync (check=True), the last event,
\* True, and the `finally`.
ExtractSync ==
    /\ pc = "xc_sync"
    /\ \E out \in Outcomes :
         /\ cmds' = Append(cmds, Ran(SyncCmd, out))
         /\ IF out # "ok"
            THEN ExtractFailed(env)
            ELSE /\ events' = UpdateProgress(events, 100, "Windows USB created successfully!")
                 /\ result' = "true"
                 /\ env' = RemoveScratch(env)
                 /\ pc' = "xc_return"
    /\ UNCHANGED run
    /\ UNCHANGED <<front, device_ro, dm, worker, validated, media, image, device_exists,
                   nparts, is_root, options, gui, iso_info, strategy, exit_code>>

ExtractAndCopy ==
    \/ ExtractBegin
    \/ Extract7z
    \/ ExtractSplit
    \/ ExtractCopyBoot
    \/ ExtractCopyInstall
    \/ ExtractCopyAll
    \/ ExtractBootloader
    \/ ExtractSync

\* -------------------------------------------------------- DiskFormatter
\* _unmount_device, lines 59-74: udisksctl unmount and umount on the device,
\* umount on each partition, none of them checked.
FormatDiskUnmountCmd(i) ==
    IF i = 1 THEN Cmd("udisksctl", "unmount", "device", FALSE)
    ELSE IF i = 2 THEN Cmd("umount", "unmount", "device", FALSE)
    ELSE Cmd("umount", "unmount", "part", FALSE)

\* The outcomes of these commands on a device with n partitions; a missing
\* executable raises, which ends _unmount_device (except Exception: pass).
FormatDiskUnmountOutcomes(n) ==
    { s \in UNION { [1..m -> Outcomes] : m \in 1..(n + 2) } :
        /\ \A i \in 1..(Len(s) - 1) : s[i] # "missing"
        /\ (Len(s) < n + 2) => (s[Len(s)] = "missing") }

\* _create_partition, lines 84-90: parted has no exfat type.
PartedFs(fs) == IF fs = FS_EXFAT THEN FS_FAT32 ELSE fs

\* _create_partition, lines 99-104: the flag of partition 1, if any.
FormatDiskFlagCmds(scheme, fs) ==
    IF scheme = SCHEME_MBR THEN <<Cmd("parted", "set", "boot", TRUE)>>
    ELSE IF scheme = SCHEME_GPT /\ fs = FS_FAT32 THEN <<Cmd("parted", "set", "esp", TRUE)>>
    ELSE <<>>

\* _format_partition, lines 109-126: the mkfs command on partition 1.
FormatDiskMkfsCmd(fs) ==
    IF fs = FS_FAT32 THEN Cmd("mkfs.fat", "mkfs", "1", TRUE)
    ELSE IF fs = FS_NTFS THEN Cmd("mkfs.ntfs", "mkfs", "1", TRUE)
    ELSE Cmd("mkfs.exfat", "mkfs", "1", TRUE)

\* A formatting that makes the filesystem before the partition exists.
\* C19_FormattingOrder tells it from the program's.
FormatDiskCmdsMkfsFirst(scheme, fs) ==
    <<Cmd("parted", "mklabel", scheme, TRUE), FormatDiskMkfsCmd(fs),
      Cmd("parted", "mkpart", <<PartedFs(fs), "0%", "100%">>, TRUE)>>
    \o FormatDiskFlagCmds(scheme, fs)

\* The checked commands of format_disk, lines 35-50, in program order.
FormatDiskCmds(scheme, fs) ==
    <<Cmd("parted", "mklabel", scheme, TRUE),
      Cmd("parted", "mkpart", <<PartedFs(fs), "0%", "100%">>, TRUE)>>
    \o FormatDiskFlagCmds(scheme, fs)
    \o <<FormatDiskMkfsCmd(fs)>>

\* format_disk, line 33: _unmount_device, best effort.
FormatDiskUnmount ==
    /\ pc = "fd_start"
    /\ \E outs \in FormatDiskUnmountOutcomes(nparts) :
         cmds' = cmds \o [i \in 1..Len(outs) |-> Ran(FormatDiskUnmountCmd(i), outs[i])]
    /\ run' = [run EXCEPT !.k = 1, !.scheme = options.scheme]
    /\ pc' = "fd_cmds"
    /\ UNCHANGED <<front, device_ro, dm, env, worker, validated, media, image, device_exists, nparts,
                   is_root, options, gui, iso_info, strategy, events, result, exit_code>>

\* format_disk, lines 35-57: the next checked command; a non-zero exit and
\* a missing executable both end the call with False.
FormatDiskStep ==
    /\ pc = "fd_cmds"
    /\ LET plan == FormatDiskCmds(run.scheme, options.filesystem)
       IN  IF run.k > Len(plan)
           THEN /\ result' = "true"
                /\ pc' = "fd_return"
                /\ UNCHANGED <<run, cmds>>
           ELSE \E out \in Outcomes :
                  /\ cmds' = Append(cmds, Ran(plan[run.k], out))
                  /\ IF out = "ok"
                     THEN /\ run' = [run EXCEPT !.k = run.k + 1]
                          /\ UNCHANGED <<pc, result>>
                     ELSE /\ result' = "false"
                          /\ pc' = "fd_return"
                          /\ UNCHANGED run
    /\ UNCHANGED <<front, device_ro, dm, env, worker, validated, media, image, device_exists, nparts,
                   is_root, options, gui, iso_info, strategy, events, exit_code>>

FormatDisk ==
    \/ FormatDiskUnmount
    \/ FormatDiskStep

StrategyEntry(s) == IF s = "windows" THEN "ww_start" ELSE "lw_start"

LinuxPcs == {"lw_start", "lw_unmount", "lw_getsize", "lw_format", "lw_dd",
             "lw_lines", "lw_sync"}
WindowsPcs == {"ww_start", "ww_unmount"}

\* strategy.write is executing.
InWrite == pc \in LinuxPcs \cup WindowsPcs

\* ------------------------------------------------------------------ CLI
Exit(code) ==
    /\ exit_code' = code
    /\ pc' = "exit"

\* main, lines 99-109: both paths must exist before run_write is called.
CliMain ==
    /\ front = "cli"
    /\ pc = "cli_main"
    /\ IF ~image.exists \/ ~device_exists
       THEN Exit(1)
       ELSE /\ pc' = "cli_perm"
            /\ UNCHANGED exit_code
    /\ UNCHANGED <<front, device_ro, dm, env, worker, validated, media, image, device_exists, nparts, is_root, options, gui,
                   iso_info, strategy, run, cmds, events, result>>

\* run_write, lines 156-160.
CliPermissions ==
    /\ pc = "cli_perm"
    /\ \E o \in PermissionOutcomes(is_root) :
         LET r == RequestPermissions(is_root, o.pkexec, o.sudo)
         IN  /\ cmds' = cmds \o r.probes
             /\ IF r.granted
                THEN /\ pc' = "cli_analyze"
                     /\ UNCHANGED exit_code
                ELSE Exit(1)
    /\ UNCHANGED <<front, device_ro, dm, env, worker, validated, media, image, device_exists, nparts, is_root, options, gui,
                   iso_info, strategy, run, events, result>>

\* run_write, lines 169-171: a large install.wim overrides --fs.
CliOverrideFs(opts, info) ==
    IF info.wim_size > FourGiB THEN [opts EXCEPT !.filesystem = FS_NTFS] ELSE opts

\* run_write, lines 162-196: analysis, the filesystem override and the
\* choice of the strategy; an exception of the analyzer ends in exit code 1.
CliAnalyze ==
    /\ pc = "cli_analyze"
    /\ \E o \in AnalysisOutcomes(image) :
         LET r == Analyze(image, o)
         IN  /\ cmds' = cmds \o Invoked(r.probes)
             /\ env' = Attached(env, r.loop)
             /\ IF r.raised
                THEN /\ Exit(1)
                     /\ UNCHANGED <<iso_info, options, strategy>>
                ELSE /\ iso_info' = r.info
                     /\ options' = CliOverrideFs(options, r.info)
                     /\ strategy' = SelectStrategy(r.info)
                     /\ pc' = "cli_confirm"
                     /\ UNCHANGED exit_code
    /\ UNCHANGED <<front, device_ro, dm, worker, validated, media, image, device_exists, nparts, is_root, gui,
                   run, events, result>>

\* run_write, lines 198-208: the confirmation prompt. Anything but YES ends
\* with exit code 0; end of input raises EOFError, an Exception.
CliConfirm ==
    /\ pc = "cli_confirm"
    /\ \E response \in {"YES", "no", "EOF"} :
         IF response = "YES"
         THEN /\ pc' = StrategyEntry(strategy)
              /\ UNCHANGED exit_code
         ELSE Exit(IF response = "no" THEN 0 ELSE 1)
    /\ UNCHANGED <<front, device_ro, dm, env, worker, validated, media, image, device_exists, nparts, is_root, options, gui,
                   iso_info, strategy, run, cmds, events, result>>

\* An exit code that is 0 whatever write gave. The program does not do
\* this; C13_ExitCodes tells the two apart.
FinishCodeZero(r) == 0

\* run_write, lines 208-222: 0 when write returned True, 1 when it returned
\* False or raised an Exception.
FinishCode(r) == IF r = "true" THEN 0 ELSE 1

\* run_write, lines 208-222: the exit code from what strategy.write gave.
CliFinish ==
    /\ front = "cli"
    /\ pc = "write_return"
    /\ Exit(FinishCode(result))
    /\ UNCHANGED <<front, device_ro, dm, env, worker, validated, media, image, device_exists, nparts, is_root, options, gui,
                   iso_info, strategy, run, cmds, events, result>>

\* run_write, lines 217-219: Ctrl-C anywhere inside run_write, the strategy's
\* write included (KeyboardInterrupt is no Exception, so no handler of the
\* strategies catches it).
CliInterrupt ==
    /\ front = "cli"
    /\ pc \in {"cli_perm", "cli_analyze", "cli_confirm", "write_return"}
              \cup LinuxPcs \cup WindowsPcs
    /\ Exit(130)
    /\ UNCHANGED <<front, device_ro, dm, env, worker, validated, media, image, device_exists, nparts, is_root, options, gui,
                   iso_info, strategy, run, cmds, events, result>>

Cli ==
    \/ CliMain
    \/ CliPermissions
    \/ CliAnalyze
    \/ CliConfirm
    \/ CliFinish
    \/ CliInterrupt

\* ---------------------------------------------------------- main window
OptionSets == [scheme : Schemes, filesystem : Filesystems, validate : BOOLEAN]

\* SettingsPanel.setup_ui: the first item of each combo box, validate checked.
PanelDefaults == [scheme |-> SCHEME_MBR, filesystem |-> FS_FAT32, validate |-> TRUE]

\* MainWindow.__init__ / setup_ui: nothing selected, start button disabled,
\* no perform_write timer pending.
GuiInit == [iso_path |-> FALSE, selected_device |-> FALSE, start_enabled |-> FALSE,
            inputs_enabled |-> TRUE, fat32_enabled |-> TRUE, timers |-> 0]

\* MainWindow.update_start_button
UpdateStartButton(g) ==
    [g EXCEPT !.start_enabled = g.iso_path /\ g.selected_device]

\* SettingsPanel.update_options_for_iso: the FAT32 item is disabled for a
\* Windows image with a large install.wim and enabled again for any other
\* Windows or Linux image.
UpdateOptionsForIso(g, info) ==
    IF info.type = ISO_TYPE_WINDOWS
    THEN [g EXCEPT !.fat32_enabled = ~(info.wim_size > FourGiB)]
    ELSE IF info.type = ISO_TYPE_LINUX
    THEN [g EXCEPT !.fat32_enabled = TRUE]
    ELSE g

\* SettingsPanel.update_options_for_iso and MainWindow.auto_select_settings:
\* the settings chosen for the image that was selected.
AutoSelectSettings(opts, info) ==
    IF info.type = ISO_TYPE_WINDOWS
    THEN [opts EXCEPT !.scheme = SCHEME_GPT,
                      !.filesystem = IF info.wim_size > FourGiB
                                     THEN FS_NTFS ELSE FS_FAT32]
    ELSE IF info.type = ISO_TYPE_LINUX
    THEN [opts EXCEPT !.scheme = SCHEME_GPT, !.filesystem = FS_FAT32]
    ELSE opts

\* An on_write_started that schedules perform_write but leaves the start
\* button enabled. The program does not do this; C6_OneWriteInFlight tells
\* the two apart.
OnWriteStartedStartEnabled(g) ==
    [g EXCEPT !.inputs_enabled = FALSE, !.timers = g.timers + 1]

\* MainWindow.on_write_started: the inputs and the start button are disabled
\* and perform_write is scheduled with QTimer.singleShot.
OnWriteStarted(g) ==
    [g EXCEPT !.inputs_enabled = FALSE, !.start_enabled = FALSE,
              !.timers = g.timers + 1]

\* An on_write_finished that leaves the inputs disabled.
\* C29_WriteFinishedFollows tells it from the program's.
OnWriteFinishedInputsOff(g) == UpdateStartButton(g)

\* MainWindow.on_write_finished: the inputs are enabled again.
OnWriteFinished(g) ==
    UpdateStartButton([g EXCEPT !.inputs_enabled = TRUE])

\* The GUI thread is in its event loop and the main window takes input.
GuiIdle == front = "gui" /\ pc = "gui_idle"

\* IsoSelector.set_iso_path and MainWindow.on_iso_selected: the file must
\* exist to be selected; an analysis that raises clears the selection.
GuiSelectIso ==
    /\ GuiIdle
    /\ gui.inputs_enabled
    /\ image.exists
    /\ \E o \in AnalysisOutcomes(image) :
         LET r == Analyze(image, o)
         IN  IF r.raised
             THEN /\ gui' = UpdateStartButton([gui EXCEPT !.iso_path = FALSE])
                  /\ UNCHANGED <<options, env>>
             ELSE /\ gui' = UpdateStartButton(
                              UpdateOptionsForIso([gui EXCEPT !.iso_path = TRUE], r.info))
                  /\ options' = AutoSelectSettings(options, r.info)
                  /\ env' = Attached(env, r.loop)
    /\ UNCHANGED <<front, device_ro, dm, worker, validated, media, pc, image, device_exists, nparts, is_root,
                   iso_info, strategy, run, cmds, events, result, exit_code>>

\* DiskListWidget.on_selection_changed and MainWindow.on_disk_selected: an
\* item of the list, which shows the devices present at the last refresh.
GuiSelectDisk ==
    /\ GuiIdle
    /\ gui.inputs_enabled
    /\ device_exists
    /\ ~gui.selected_device
    /\ gui' = UpdateStartButton([gui EXCEPT !.selected_device = TRUE])
    /\ UNCHANGED <<front, device_ro, dm, env, worker, validated, media, pc, image, device_exists, nparts, is_root, options,
                   iso_info, strategy, run, cmds, events, result, exit_code>>

\* The user picks other items in the combo boxes or toggles the validate
\* box of the settings panel; a disabled FAT32 item cannot be picked.
GuiChangeSettings ==
    /\ GuiIdle
    /\ gui.inputs_enabled
    /\ \E o \in OptionSets :
         /\ o # options
         /\ (o.filesystem = FS_FAT32 /\ options.filesystem # FS_FAT32)
               => gui.fat32_enabled
         /\ options' = o
    /\ UNCHANGED <<front, device_ro, dm, env, worker, validated, media, pc, image, device_exists, nparts, is_root, gui,
                   iso_info, strategy, run, cmds, events, result, exit_code>>

\* The device is unplugged. MainWindow.refresh_disks empties the list, but
\* MainWindow.selected_device keeps the path that was selected.
GuiUnplug ==
    /\ GuiIdle
    /\ device_exists
    /\ device_exists' = FALSE
    /\ UNCHANGED <<front, device_ro, dm, env, worker, validated, media, pc, image, nparts, is_root, options, gui,
                   iso_info, strategy, run, cmds, events, result, exit_code>>

\* MainWindow.start_write_process, on a click of the enabled start button:
\* the confirmation dialog, the privilege check, then write_started, whose
\* slot on_write_started runs at once.
GuiClickStart ==
    /\ GuiIdle
    /\ gui.start_enabled
    /\ gui.iso_path /\ gui.selected_device
    /\ \E reply \in {"Yes", "No"}, o \in PermissionOutcomes(is_root) :
         LET r == RequestPermissions(is_root, o.pkexec, o.sudo)
         IN  IF reply = "No"
             THEN /\ o = [pkexec |-> "ok", sudo |-> "ok"]
                  /\ UNCHANGED <<gui, cmds>>
             ELSE /\ cmds' = r.probes
                  /\ gui' = IF r.granted THEN OnWriteStarted(gui) ELSE gui
    /\ UNCHANGED <<front, device_ro, dm, env, worker, validated, media, pc, image, device_exists, nparts, is_root, options,
                   iso_info, strategy, run, events, result, exit_code>>

\* MainWindow.perform_write, lines 311-326, when its timer fires: the image
\* is analysed again and the strategy chosen; an exception goes to the
\* handler at line 342.
GuiPerformWrite ==
    /\ GuiIdle
    /\ gui.timers > 0
    /\ gui' = [gui EXCEPT !.timers = gui.timers - 1]
    /\ \E o \in AnalysisOutcomes(image) :
         LET r == Analyze(image, o)
         IN  /\ cmds' = cmds \o Invoked(r.probes)
             /\ env' = Attached(env, r.loop)
             /\ IF r.raised
                THEN /\ pc' = "gui_failed"
                     /\ UNCHANGED <<iso_info, strategy>>
                ELSE /\ iso_info' = r.info
                     /\ strategy' = SelectStrategy(r.info)
                     /\ pc' = StrategyEntry(SelectStrategy(r.info))
    /\ UNCHANGED <<front, device_ro, dm, worker, validated, media, image, device_exists, nparts, is_root, options,
                   run, events, result, exit_code>>

\* perform_write, lines 338-343, and on_write_finished: write_finished is
\* emitted with the result (False when write or the analysis raised) and its
\* slot enables the inputs again. The histories of the attempt end here.
GuiWriteFinished ==
    /\ front = "gui"
    /\ pc \in {"write_return", "gui_failed"}
    /\ gui' = OnWriteFinished(gui)
    /\ pc' = "gui_idle"
    /\ iso_info' = NoInfo
    /\ strategy' = "none"
    /\ run' = NoRun
    /\ cmds' = <<>>
    /\ events' = <<>>
    /\ result' = "none"
    /\ UNCHANGED <<front, device_ro, dm, env, worker, validated, media, image, device_exists, nparts, is_root, options, exit_code>>

Gui ==
    \/ GuiSelectIso
    \/ GuiSelectDisk
    \/ GuiChangeSettings
    \/ GuiUnplug
    \/ GuiClickStart
    \/ GuiPerformWrite
    \/ GuiWriteFinished

\* ---------------------------------------------------------------- state
Init ==
    /\ front \in {"cli", "gui"}
    /\ image \in Images
    /\ device_ro \in BOOLEAN
    /\ nparts \in 0..MaxParts
    /\ is_root \in BOOLEAN
    /\ IF front = "cli"
       THEN /\ pc = "cli_main"
            /\ device_exists \in BOOLEAN
            /\ options \in OptionSets
       ELSE /\ pc = "gui_idle"
            /\ device_exists = TRUE
            /\ options = PanelDefaults
    /\ gui = GuiInit
    /\ iso_info = NoInfo
    /\ strategy = "none"
    /\ run = NoRun
    /\ cmds = <<>>
    /\ events = <<>>
    /\ result = "none"
    /\ exit_code = -1
    /\ validated = "not_run"
    /\ media = NoMedia
    /\ dm = NoDm
    /\ env = NoEnv
    /\ worker = NoWorker

Next ==
    \/ Cli
    \/ Gui
    \/ LinuxWrite
    \/ WindowsWrite

Spec == Init /\ [][Next]_vars

\* ------------------------------------------------------------ direct calls
\* The methods of the strategies called directly on a strategy object, as a
\* test does: no front end, an existing device that nothing has touched.
UnitInit ==
    /\ front = "unit"
    /\ device_exists = TRUE
    /\ device_ro = FALSE
    /\ nparts = 0
    /\ is_root = TRUE
    /\ gui = GuiInit
    /\ cmds = <<>>
    /\ events = <<>>
    /\ result = "none"
    /\ exit_code = -1
    /\ validated = "not_run"

\* The options of a direct call: the dictionaries of the callers, with or
\* without the 'uefi' key.
UnitOptionSets ==
    OptionSets \cup [scheme : Schemes, filesystem : Filesystems,
                     validate : BOOLEAN, uefi : BOOLEAN]

WindowsImages == {i \in Images : i.exists /\ i.ext /\ i.readable /\ i.win}

\* _format_for_windows called as write line 60 calls it: on a Windows image,
\* with needs_split computed from the analysis as in lines 50-54.
InitWindowsFormat ==
    /\ UnitInit
    /\ pc = "wf_start"
    /\ image \in WindowsImages
    /\ options \in UnitOptionSets
    /\ strategy = "windows"
    /\ \E o \in AnalysisOutcomes(image) :
         /\ ~Analyze(image, o).raised
         /\ iso_info = Analyze(image, o).info
    /\ run = [NoRun EXCEPT !.needs_split = NeedsSplit(iso_info.wim_size)]
    /\ media = NoMedia
    /\ dm = NoDm
    /\ env = NoEnv
    /\ worker = NoWorker

NextWindowsFormat ==
    \/ WindowsFormatBegin
    \/ WindowsFormatStep

SpecWindowsFormat == InitWindowsFormat /\ [][NextWindowsFormat]_vars

\* LinuxWriteStrategy.validate called on an image file and a device.
InitValidate ==
    /\ UnitInit
    /\ pc = "lv_start"
    /\ image \in {i \in Images : i.exists /\ i.ext /\ i.readable /\ i.linux /\ ~i.win}
    /\ options = PanelDefaults
    /\ strategy = "linux"
    /\ iso_info = NoInfo
    /\ run = NoRun
    /\ media \in [iso : Files, device : Files]
    /\ dm = NoDm
    /\ env = NoEnv
    /\ worker = NoWorker

NextValidate == LinuxValidateCall

SpecValidate == InitValidate /\ [][NextValidate]_vars

\* The methods of DiskManager called on a manager: get_removable_disks with
\* what UDisks2 (or lsblk) reports, unmount_disk with how the two unmount
\* attempts end.
InitDiskManager ==
    /\ UnitInit
    /\ pc = "dm_start"
    /\ image \in {i \in Images : i.exists /\ i.ext /\ i.readable /\ i.linux /\ ~i.win}
    /\ options = PanelDefaults
    /\ strategy = "none"
    /\ iso_info = NoInfo
    /\ run = NoRun
    /\ media = NoMedia
    /\ env = NoEnv
    /\ worker = NoWorker
    /\ \/ \E enum \in {"ok", "raise"} :
            /\ dm \in [call : {"get_removable_disks"}, enum : {enum},
                       objects : IF enum = "ok" THEN SeqsUpTo(ManagedObjects, MaxObjects)
                                 ELSE {<<>>},
                       lsblk : IF enum = "ok" THEN {"ok"} ELSE Outcomes,
                       devices : IF enum = "ok" THEN {<<>>}
                                 ELSE SeqsUpTo(LsblkDevices, MaxObjects),
                       udisks : {"ok"}, umount : {"ok"},
                       returned : {FALSE}, value : {<<>>}]
            /\ (dm.lsblk # "ok") => (dm.devices = <<>>)
       \/ /\ dm \in [call : {"unmount_disk"}, enum : {"ok"}, objects : {<<>>},
                     lsblk : {"ok"}, devices : {<<>>},
                     udisks : {"ok", "raise"}, umount : Outcomes,
                     returned : {FALSE}, value : {<<>>}]
          /\ (dm.udisks = "ok") => (dm.umount = "ok")

NextDiskManager ==
    \/ DmGetRemovableDisks
    \/ DmUnmountDisk

SpecDiskManager == InitDiskManager /\ [][NextDiskManager]_vars

\* Every way to a formatting: DiskFormatter.format_disk, the write of either
\* strategy, and _format_for_windows called directly, since write does not
\* get as far as calling it.
InitFormatting ==
    /\ device_ro = FALSE
    /\ nparts \in 0..MaxParts
    /\ is_root = TRUE
    /\ gui = GuiInit
    /\ cmds = <<>>
    /\ events = <<>>
    /\ result = "none"
    /\ exit_code = -1
    /\ validated = "not_run"
    /\ media = NoMedia
    /\ dm = NoDm
    /\ env = NoEnv
    /\ worker = NoWorker
    /\ iso_info = NoInfo
    /\ \/ /\ front = "unit" /\ pc = "fd_start" /\ strategy = "formatter"
          /\ device_exists = TRUE
          /\ image \in {i \in Images : ~i.exists}
          /\ options \in OptionSets
          /\ run = NoRun
       \/ /\ front = "unit" /\ pc = "lw_start" /\ strategy = "linux"
          /\ device_exists \in BOOLEAN
          /\ image \in {i \in Images : ~i.win}
          /\ options \in OptionSets
          /\ run = NoRun
       \/ /\ front = "unit" /\ pc = "ww_start" /\ strategy = "windows"
          /\ device_exists = TRUE
          /\ image \in {i \in Images : i.win \/ ~i.exists}
          /\ options \in OptionSets
          /\ run = NoRun
       \/ /\ front = "helper" /\ pc = "wf_start" /\ strategy = "windows"
          /\ device_exists = TRUE
          /\ image \in WindowsImages
          /\ options \in UnitOptionSets
          /\ \E w \in WimSizes : run = [NoRun EXCEPT !.needs_split = NeedsSplit(w)]

NextFormatting ==
    \/ FormatDisk
    \/ LinuxWrite
    \/ WindowsWrite
    \/ WindowsFormatBegin
    \/ WindowsFormatStep

SpecFormatting == InitFormatting /\ [][NextFormatting]_vars

\* _extract_and_copy called as write line 64 calls it, on a Windows image
\* and a device _format_for_windows has prepared (write itself does not get
\* that far).
InitExtract ==
    /\ front = "helper"
    /\ pc = "xc_start"
    /\ strategy = "windows"
    /\ image \in WindowsImages
    /\ device_exists = TRUE
    /\ device_ro = FALSE
    /\ nparts \in 1..2
    /\ is_root = TRUE
    /\ options = PanelDefaults
    /\ gui = GuiInit
    /\ iso_info = NoInfo
    /\ run = [NoRun EXCEPT !.needs_split = (nparts = 2)]
    /\ cmds = <<>>
    /\ events = <<>>
    /\ result = "none"
    /\ exit_code = -1
    /\ validated = "not_run"
    /\ media = NoMedia
    /\ dm = NoDm
    /\ env = NoEnv
    /\ worker = NoWorker

NextExtract == ExtractAndCopy

SpecExtract == InitExtract /\ [][NextExtract]_vars

\* ImageAnalyzer.analyze called on an image file.
InitAnalyze ==
    /\ UnitInit
    /\ pc = "an_start"
    /\ image \in MarkedImages
    /\ options = PanelDefaults
    /\ strategy = "none"
    /\ iso_info = NoInfo
    /\ run = NoRun
    /\ media = NoMedia
    /\ dm = NoDm
    /\ env = NoEnv
    /\ worker = NoWorker

NextAnalyze == AnalyzeCall

SpecAnalyze == InitAnalyze /\ [][NextAnalyze]_vars

\* An AsyncWorker on some task, its thread and a thread that may cancel it.
InitWorker ==
    /\ UnitInit
    /\ pc = "aw_start"
    /\ image \in {i \in Images : ~i.exists}
    /\ options = PanelDefaults
    /\ strategy = "none"
    /\ iso_info = NoInfo
    /\ run = NoRun
    /\ media = NoMedia
    /\ dm = NoDm
    /\ env = NoEnv
    /\ worker \in [task : Tasks, wpc : {"not_started"}, cpc : {"idle"},
                   is_cancelled : {FALSE}, signals : {<<>>}]

NextWorker ==
    \/ WorkerStart
    \/ WorkerTask
    \/ WorkerTest
    \/ WorkerEmit
    \/ CancelSetFlag
    \/ CancelTerminate
    \/ WorkerTerminated
    \/ CancelWait

SpecWorker == InitWorker /\ [][NextWorker]_vars

\* The main window with its event loop running: a timer that is due fires,
\* the write, which runs on the GUI thread, goes on from step to step (every
\* external tool comes to an end), and the slot of write_finished runs.
InitMainWindow == Init /\ front = "gui"

NextMainWindow ==
    \/ Gui
    \/ LinuxWrite
    \/ WindowsWrite

SpecMainWindow ==
    /\ InitMainWindow
    /\ [][NextMainWindow]_vars
    /\ WF_vars(GuiPerformWrite)
    /\ WF_vars(LinuxWrite)
    /\ WF_vars(WindowsWrite)
    /\ WF_vars(GuiWriteFinished)

\* ================================================================ claims
Last(seq) == seq[Len(seq)]

ToolsOf(seq) == {seq[i].tool : i \in 1..Len(seq)}

\* The tools that prepare a device: partitioning and making filesystems.
FormatTools == {"parted", "mkfs.fat", "mkfs.ntfs", "mkfs.exfat"}

\* The tools of a write attempt: analysis probes, unmounting, partitioning,
\* formatting, extraction and copying.
WriteTools == FormatTools \cup {"file", "udisksctl", "7z", "dd", "sync",
                                "mount", "umount", "cp", "wimlib-imagex"}

\* C1 (as stated): within one run of a strategy's write the percents handed
\* to the progress callback never decrease from one event to the next
\* (a closing failure event, which carries percent 0, is not held against
\* this), and once the run has ended its last event has percent 100 or is a
\* failure event.
C1_ProgressMonotone ==
    /\ \A i \in 1..(Len(events) - 1) :
         IsFailureEvent(events[i + 1])
            \/ events[i].percent <= events[i + 1].percent
    /\ (pc = "write_return") =>
         /\ events # <<>>
         /\ (Last(events).percent = 100 \/ IsFailureEvent(Last(events)))

\* C4 (as stated): while the device path does not exist, no external tool of
\* a write attempt (analysis probe, unmount, partitioning, formatting,
\* extraction, copy) has been invoked in the attempt.
C4_NoToolWithoutDevice ==
    (~device_exists) => (ToolsOf(cmds) \cap WriteTools = {})

\* The CLI run was cancelled (Ctrl-C, exit code 130) while the Linux
\* strategy's write was running and before dd was started.
CancelledBeforeTransfer ==
    /\ front = "cli"
    /\ pc = "exit"
    /\ exit_code = 130
    /\ strategy = "linux"
    /\ events # <<>>
    /\ result = "none"
    /\ "dd" \notin ToolsOf(cmds)

\* C5 (as stated): a run of the Linux strategy cancelled before any byte was
\* written has invoked no partitioning or formatting command.
C5_CancelBeforeTransfer ==
    CancelledBeforeTransfer => (ToolsOf(cmds) \cap FormatTools = {})

\* Writes in flight in the main window: perform_write calls scheduled and
\* not yet run, plus the call that is running.
WritesInFlight ==
    gui.timers + (IF InWrite \/ pc \in {"write_return", "gui_failed"} THEN 1 ELSE 0)

\* C6: at most one write is in flight at any time, and while one is in flight
\* the start button of the main window is disabled, so a further request is
\* neither accepted nor queued.
C6_OneWriteInFlight ==
    /\ WritesInFlight <= 1
    /\ (front = "gui" /\ WritesInFlight = 1) => ~gui.start_enabled

\* C6 witness: the main window's write is copying with dd while both the
\* image and the device are still selected.
C6_Witness ==
    /\ front = "gui"
    /\ pc = "lw_lines"
    /\ gui.iso_path /\ gui.selected_device
    /\ gui.timers = 0

\* C7 (as stated): with the validate option on, a run whose transfer
\* completed (write returned True) has had the validator run by the time the
\* caller is done with it.
C7_ValidatorRuns ==
    (pc = "exit" /\ exit_code = 0 /\ result = "true" /\ options.validate)
        => validated # "not_run"

\* C8 (as stated): in a run of the Linux strategy percent 100 is reported
\* only after dd has exited with status 0 and the sync call has returned.
C8_HundredAfterSync ==
    (strategy = "linux" /\ \E i \in 1..Len(events) : events[i].percent = 100)
        => /\ \E j \in 1..Len(cmds) : cmds[j].tool = "dd" /\ cmds[j].out = "ok"
           /\ "sync" \in ToolsOf(cmds)

\* C10 (as stated): the Windows strategy is selected only for a Windows image
\* with a large payload; Linux images, Unknown images and Windows images with
\* a small payload get the Linux strategy.
C10_SelectionBySize ==
    (strategy # "none") =>
        (strategy = "windows"
            <=> (iso_info.type = ISO_TYPE_WINDOWS /\ iso_info.wim_size > FourGiB))

\* C10 (amended): the selection depends on the analysed type alone: the
\* Windows strategy for every Windows image, whatever the size of its
\* payload, and the Linux strategy for Linux and Unknown images.
C10_SelectionByType ==
    (strategy # "none") =>
        (strategy = "windows" <=> iso_info.type = ISO_TYPE_WINDOWS)

\* C10 witness: the Windows strategy was selected for a Windows image whose
\* install.wim does not exceed 4 GiB.
C10_Witness ==
    /\ strategy = "windows"
    /\ iso_info.type = ISO_TYPE_WINDOWS
    /\ iso_info.wim_size <= FourGiB

\* The mkfs tools that have completed in this attempt.
MkfsDone == {cmds[i].tool : i \in {j \in 1..Len(cmds) :
                                     cmds[j].op = "mkfs" /\ cmds[j].out = "ok"}}

\* The device has been prepared for a Windows image whose install.wim
\* exceeds 4 GiB.
PreparedForLargeWim ==
    /\ strategy = "windows"
    /\ iso_info.wim_size > FourGiB
    /\ pc = "wf_return"
    /\ result = "true"

\* C2: for an image whose analysed wim_size exceeds 4 GiB, whatever the
\* filesystem requested, a device that has been prepared never carries FAT32
\* as its only filesystem: an NTFS filesystem has been made on it.
C2_NeverFat32Alone ==
    PreparedForLargeWim => ("mkfs.ntfs" \in MkfsDone /\ MkfsDone # {"mkfs.fat"})

\* C2 witness: FAT32 was requested for an image with a large install.wim and
\* the device was prepared with a FAT32 and an NTFS partition.
C2_Witness ==
    /\ PreparedForLargeWim
    /\ options.filesystem = FS_FAT32
    /\ MkfsDone = {"mkfs.fat", "mkfs.ntfs"}

\* C3: when the options ask for UEFI (the default), every partition table
\* created for a Windows image is GPT, whichever scheme was requested.
C3_UefiForcesGpt ==
    (strategy = "windows" /\ OptionsGetUefi(options)) =>
        \A i \in 1..Len(cmds) :
            (cmds[i].op = "mklabel") => (cmds[i].arg = SCHEME_GPT)

\* C3 witness: MBR was requested, UEFI is on, and a GPT partition table has
\* been created.
C3_Witness ==
    /\ strategy = "windows"
    /\ OptionsGetUefi(options)
    /\ options.scheme = SCHEME_MBR
    /\ \E i \in 1..Len(cmds) :
         cmds[i].op = "mklabel" /\ cmds[i].arg = SCHEME_GPT /\ cmds[i].out = "ok"

\* The byte of a file at a position: 1 or 0, or -1 past its end.
ByteAt(f, p) == IF p >= f.size THEN -1 ELSE IF p \in f.marks THEN 1 ELSE 0

\* The first 512 bytes of two files are equal.
LeadingBytesEqual(a, b) ==
    \A p \in 0..(ValidateWindow - 1) : ByteAt(a, p) = ByteAt(b, p)

\* C9: on two files that can be read, the Linux validator returns true
\* exactly when their first 512 bytes are equal; bytes after the window, and
\* the lengths of the files beyond it, do not matter.
C9_ValidateComparesWindow ==
    (pc = "lv_return" /\ media.iso.readable /\ media.device.readable) =>
        (validated = "true" <=> LeadingBytesEqual(media.iso, media.device))

\* C9 witness: the validator returned true on two files that are equal in
\* the window and differ in the byte right after it.
C9_Witness ==
    /\ pc = "lv_return"
    /\ validated = "true"
    /\ media.iso.readable /\ media.device.readable
    /\ ValidateWindow \in media.iso.marks
    /\ ValidateWindow \notin media.device.marks
    /\ media.device.size > ValidateWindow

\* A partition has been created by this command.
IsPartitionMade(c) == c.op = "mkpart" /\ c.out = "ok"

\* The partitions created in this attempt, in order: <<type, start, end>>.
PartitionsMade ==
    LET made == SelectSeq(cmds, IsPartitionMade)
    IN  [i \in 1..Len(made) |-> made[i].arg]

\* A command of the attempt with this operation and argument has completed.
Done(op, arg) ==
    \E i \in 1..Len(cmds) :
        cmds[i].op = op /\ cmds[i].arg = arg /\ cmds[i].out = "ok"

\* _format_for_windows has returned True.
WindowsFormatted ==
    /\ strategy = "windows"
    /\ pc = "wf_return"
    /\ result = "true"

\* C11: once the formatting step for a Windows image has succeeded, an image
\* whose install.wim exceeds 4 GiB has exactly two partitions, the first
\* FAT32 from 0% to 1GB with the ESP flag and a FAT filesystem, the second
\* NTFS from 1GB to 100% with an NTFS filesystem; any other Windows image
\* has exactly one partition, from 0% to 100%.
C11_WindowsPartitions ==
    WindowsFormatted =>
        IF iso_info.wim_size > FourGiB
        THEN /\ PartitionsMade = << <<FS_FAT32, "0%", "1GB">>,
                                    <<FS_NTFS, "1GB", "100%">> >>
             /\ Done("set", "esp")
             /\ Done("mkfs", "1") /\ Done("mkfs", "2")
             /\ MkfsDone = {"mkfs.fat", "mkfs.ntfs"}
        ELSE /\ Len(PartitionsMade) = 1
             /\ PartitionsMade[1][2] = "0%"
             /\ PartitionsMade[1][3] = "100%"

\* C11 witness: the formatting step has succeeded for an image whose
\* install.wim exceeds 4 GiB, and two partitions were created.
C11_Witness ==
    /\ WindowsFormatted
    /\ iso_info.wim_size > FourGiB
    /\ Len(PartitionsMade) = 2

\* _format_device of the Linux strategy has returned True.
LinuxFormatted ==
    /\ strategy = "linux"
    /\ \E i \in 1..Len(events) : events[i].msg = "Formatting completed"

\* C12 (as stated): once the formatting done by LinuxWriteStrategy.write has
\* succeeded, exactly one partition exists, from 0% to 100% in the requested
\* filesystem, with the boot flag when the scheme is MBR and with the ESP
\* flag when the scheme is GPT and the filesystem is FAT32.
C12_LinuxPartition ==
    LinuxFormatted =>
        /\ PartitionsMade = << <<options.filesystem, "0%", "100%">> >>
        /\ (options.scheme = SCHEME_MBR) => Done("set", "boot")
        /\ (options.scheme = SCHEME_GPT /\ options.filesystem = FS_FAT32)
              => Done("set", "esp")

\* C13: when the CLI has exited without having been interrupted (exit code
\* 130 is the interrupt's), its exit code is 0 if write returned True, 1 if
\* write returned False or raised, and 1 if the run ended before a strategy
\* was chosen (missing image or device, insufficient privilege, analysis
\* error); no other exit code than 0, 1 and 130 occurs.
C13_ExitCodes ==
    (front = "cli" /\ pc = "exit") =>
        /\ exit_code \in {0, 1, 130}
        /\ (exit_code # 130) =>
              /\ (result = "true") => (exit_code = 0)
              /\ (result \in {"false", "raised"}) => (exit_code = 1)
              /\ (strategy = "none") => (exit_code = 1)

\* C13 witness: a write that failed after dd had been started, and the CLI
\* exited with code 1.
C13_Witness ==
    /\ front = "cli"
    /\ pc = "exit"
    /\ result = "false"
    /\ exit_code = 1
    /\ "dd" \in ToolsOf(cmds)

\* A command that changes the device: unmounting, partitioning, making a
\* filesystem, or the transfer by dd.
IsDestructive(c) == c.op \in {"unmount", "mklabel", "mkpart", "set", "mkfs", "copy"}

\* The privilege probe of this attempt was answered with a refusal.
PrivilegeRefused ==
    \E i \in 1..Len(cmds) :
        cmds[i].tool \in {"pkexec", "sudo"} /\ cmds[i].out = "fail"

\* The privilege check of this attempt reported sufficient privilege.
PrivilegeGranted ==
    \/ is_root
    \/ \E i \in 1..Len(cmds) :
         cmds[i].tool \in {"pkexec", "sudo"} /\ cmds[i].out = "ok"

\* C14: a destructive command (unmount, partitioning, formatting, transfer)
\* is invoked only in an attempt whose privilege check reported sufficient
\* privilege; when the check was refused, the CLI has exited with code 1 and
\* the main window has started no write, and no destructive command has
\* been invoked.
C14_PrivilegeFirst ==
    /\ (\E i \in 1..Len(cmds) : IsDestructive(cmds[i])) => PrivilegeGranted
    /\ PrivilegeRefused =>
          /\ \A i \in 1..Len(cmds) : ~IsDestructive(cmds[i])
          /\ (front = "cli") => (pc = "exit" /\ exit_code = 1)
          /\ (front = "gui") => (pc = "gui_idle" /\ gui.timers = 0)

\* C14 witness: in the main window the privilege check was refused after
\* Start was confirmed; the window is idle again with its inputs enabled.
C14_Witness ==
    /\ front = "gui"
    /\ PrivilegeRefused
    /\ gui.start_enabled
    /\ gui.inputs_enabled

\* C15 (as stated): for a read-only device no unmount, partitioning,
\* formatting or transfer command is invoked.
C15_ReadOnlyRejected ==
    device_ro => \A i \in 1..Len(cmds) : ~IsDestructive(cmds[i])

\* C16 (as stated): analyze gives its caller a result, from which the caller
\* chooses a strategy, only for an image that exists and can be read.
C16_AnalyzeFails ==
    (strategy # "none") => (image.exists /\ image.readable)

\* C17 (as stated): unmount_disk returns True exactly when the UDisks2
\* unmount or, after it failed, the fallback umount succeeded; however both
\* fail, it returns False and does not raise.
C17_UnmountDisk ==
    (dm.call = "unmount_disk" /\ dm.returned) =>
        /\ dm.value \in {"true", "false"}
        /\ (dm.value = "true") <=> (dm.udisks = "ok" \/ dm.umount = "ok")

\* The objects get_removable_disks must list: those with the Block
\* interface that belong to a removable drive and are no partition.
RemovableWholeDisks ==
    { i \in 1..Len(dm.objects) :
        /\ "Block" \in dm.objects[i].ifaces
        /\ "Partition" \notin dm.objects[i].ifaces
        /\ \E d \in 1..Len(dm.objects) :
             /\ dm.objects[i].drive = d
             /\ "Drive" \in dm.objects[d].ifaces
             /\ dm.objects[d].removable }

\* The lsblk devices the fallback must list: parentless disks whose model
\* has one of the keywords.
FallbackWholeDisks ==
    { i \in 1..Len(dm.devices) :
        /\ dm.devices[i].disk /\ dm.devices[i].parentless
        /\ dm.devices[i].model = "usb" }

\* The fallback fails: lsblk does not run or exits non-zero, or handling
\* its output raises.
FallbackFails ==
    \/ dm.lsblk # "ok"
    \/ \E i \in 1..Len(dm.devices) :
         /\ dm.devices[i].disk /\ dm.devices[i].parentless
         /\ dm.devices[i].model = "null"

Paths(descriptors) == {descriptors[i].path : i \in 1..Len(descriptors)}

\* C18: get_removable_disks returns one descriptor for each block object
\* that belongs to a removable drive and is not a partition, and nothing
\* else (so the empty list when nothing is managed); when the enumeration
\* raises it returns what the lsblk fallback lists, and the empty list when
\* the fallback fails too.
C18_RemovableDisks ==
    (dm.call = "get_removable_disks" /\ dm.returned) =>
        IF dm.enum = "ok"
        THEN /\ Paths(dm.value) = RemovableWholeDisks
             /\ Len(dm.value) = Cardinality(RemovableWholeDisks)
             /\ (dm.objects = <<>>) => (dm.value = <<>>)
        ELSE IF FallbackFails
        THEN dm.value = <<>>
        ELSE /\ Paths(dm.value) = FallbackWholeDisks
             /\ Len(dm.value) = Cardinality(FallbackWholeDisks)

\* C18 witness: UDisks2 manages a removable drive with its whole-disk block
\* object and a partition of it; the call returned one descriptor.
C18_Witness ==
    /\ dm.call = "get_removable_disks" /\ dm.returned
    /\ dm.enum = "ok"
    /\ Len(dm.value) = 1
    /\ \E i \in 1..Len(dm.objects) :
         /\ {"Block", "Partition"} \subseteq dm.objects[i].ifaces
         /\ dm.objects[i].drive \in 1..Len(dm.objects)
         /\ dm.objects[dm.objects[i].drive].removable

\* The number of partitions made among the first n commands.
RECURSIVE PartitionsMadeBefore(_)
PartitionsMadeBefore(n) ==
    IF n = 0 THEN 0
    ELSE PartitionsMadeBefore(n - 1) + (IF IsPartitionMade(cmds[n]) THEN 1 ELSE 0)

PartitionNumber(c) == IF c.arg = "2" THEN 2 ELSE 1

\* C19: in every formatting an unmount attempt on the device precedes the
\* creation of the partition table (in the runs of format_disk and of a
\* strategy's write, where the unmount belongs), the partition table is
\* created before any partition, and a filesystem is made on partition n
\* only after the n-th partition was created in the same run.
C19_FormattingOrder ==
    \A i \in 1..Len(cmds) :
        /\ (cmds[i].op = "mklabel" /\ front # "helper") =>
               \E j \in 1..(i - 1) : cmds[j].op = "unmount" /\ cmds[j].arg = "device"
        /\ (cmds[i].op = "mkpart") =>
               \E j \in 1..(i - 1) : cmds[j].op = "mklabel" /\ cmds[j].out = "ok"
        /\ (cmds[i].op = "mkfs") =>
               PartitionsMadeBefore(i - 1) >= PartitionNumber(cmds[i])

\* C19 witness: format_disk has unmounted, partitioned and made the
\* filesystem, and returned True.
C19_Witness ==
    /\ strategy = "formatter" /\ pc = "fd_return" /\ result = "true"
    /\ \E i \in 1..Len(cmds) : cmds[i].op = "mkfs" /\ cmds[i].out = "ok"

\* C20 (as stated): once a partitioning or formatting command has failed,
\* no transfer command is invoked in the run and write returns False.
C20_FailureAborts ==
    (\E i \in 1..Len(cmds) : cmds[i].tool \in FormatTools /\ cmds[i].out # "ok") =>
        /\ \A j \in 1..Len(cmds) : cmds[j].op # "copy"
        /\ (pc = "write_return") => (result = "false")

\* C21 (as stated): every partition a copy helper mounted is unmounted
\* again when the helper returns, on every exit path.
C21_UnmountedAfterCopy == env.mounted = {}

\* C28 (as stated): no temporary mount point is recursively deleted while
\* the partition is still mounted on it.
C28_NoDeleteWhileMounted == env.wiped = {}

\* C25: when _extract_and_copy has returned, on whichever path, its scratch
\* directory has been removed.
C25_ScratchRemoved ==
    (pc = "xc_return") => (env.scratch = "removed")

\* C25 witness: a copy failed after the extraction, the call returned False
\* and the scratch directory is gone.
C25_Witness ==
    /\ pc = "xc_return" /\ result = "false" /\ env.scratch = "removed"
    /\ \E i \in 1..Len(cmds) : cmds[i].tool = "7z" /\ cmds[i].out = "ok"
    /\ Last(cmds).op = "mount"

\* C22 (as stated): a strategy's write never raises to its caller; every
\* error ends in False together with a failure event that carries a message.
C22_WriteNeverRaises ==
    (pc = "write_return") =>
        /\ result \in {"true", "false"}
        /\ (result = "false") => (events # <<>> /\ IsFailureEvent(Last(events)))

\* The tools of a write run whose failure the run must report: partitioning,
\* mkfs, extraction, split, boot-loader install, mount and umount, dd, sync.
RunTools == FormatTools \cup {"7z", "wimlib-imagex", "grub-install", "mount",
                              "umount", "dd", "sync"}

\* C23 (as stated): a run never reports success after one of its external
\* tools exited non-zero.
C23_NoSuccessAfterToolFailure ==
    (pc = "write_return" /\ result = "true") =>
        \A i \in 1..Len(cmds) :
            (cmds[i].tool \in RunTools) => (cmds[i].out # "fail")

\* C24 (as stated): on a Windows image whose install.wim exceeds 4 GiB, with
\* every external tool succeeding, write returns True and its last progress
\* event is 100.
C24_LargeWimWritten ==
    ( /\ strategy = "windows" /\ pc = "write_return" /\ run.needs_split
      /\ \A i \in 1..Len(cmds) : cmds[i].out \in {"ok", "done"} ) =>
        /\ result = "true"
        /\ events # <<>> /\ Last(events).percent = 100

\* C26 (as stated): no loop device that an analysis attached is still
\* attached once analyze has returned.
C26_LoopsTornDown == ~env.loop

\* C27 (as stated): a BOOTMGR or NTFS marker in the first 512 bytes of the
\* window gives Windows, even with Linux markers present; otherwise a Linux
\* marker anywhere in the window gives Linux; otherwise Unknown.
C27_Classify ==
    (pc = "an_return") =>
        iso_info.type = IF image.win_at = "head" THEN ISO_TYPE_WINDOWS
                        ELSE IF image.linux_at \in {"head", "tail"} THEN ISO_TYPE_LINUX
                        ELSE ISO_TYPE_UNKNOWN

\* The window is looked at: the name ends in .iso or .img and the file can
\* be read.
WindowRead == image.ext /\ image.readable

\* C27 (amended): when analyze returns, a file whose window is looked at is
\* Windows with a BOOTMGR or NTFS marker in the first 512 bytes of the
\* window, else Linux with a Linux marker anywhere in the window, else
\* Unknown; a file whose window is not looked at is Unknown. What the hybrid
\* probe found has no part in it.
C27_ClassifyGated ==
    (pc = "an_return") =>
        iso_info.type = IF WindowRead /\ image.win_at = "head" THEN ISO_TYPE_WINDOWS
                        ELSE IF WindowRead /\ image.linux_at \in {"head", "tail"}
                        THEN ISO_TYPE_LINUX
                        ELSE ISO_TYPE_UNKNOWN

\* C27 witness: a hybrid image with a Linux marker in the first 512 bytes
\* and a Windows marker later in the window was analysed: Linux.
C27_Witness ==
    /\ pc = "an_return"
    /\ image.win_at = "tail" /\ image.linux_at = "head"
    /\ iso_info.is_hybrid
    /\ iso_info.type = ISO_TYPE_LINUX

\* write_started has been emitted and write_finished has not yet followed:
\* on_write_started has disabled the inputs.
WriteStartedPending == front = "gui" /\ ~gui.inputs_enabled

\* C29: in the main window every emission of write_started is followed by
\* an emission of write_finished, after which the inputs are enabled again,
\* whether write returned True, returned False or raised; and write_finished
\* is emitted only for a write that was started and has ended, once.
C29_WriteFinishedFollows ==
    /\ WriteStartedPending ~> (gui.inputs_enabled /\ WritesInFlight = 0)
    /\ [][ (pc \in {"write_return", "gui_failed"} /\ pc' = "gui_idle") =>
              (WriteStartedPending /\ WritesInFlight = 1 /\ gui'.inputs_enabled) ]_vars

\* C29 witness: a write started from the main window has raised, and
\* write_finished is still to come.
C29_Witness ==
    /\ WriteStartedPending
    /\ pc = "write_return" /\ result = "raised"

\* C30 (as stated): however run() and cancel() interleave, no finished or
\* error signal is emitted once is_cancelled has been set, and a run that is
\* never cancelled emits exactly one of finished or error.
C30_NoSignalAfterCancel ==
    /\ \A i \in 1..Len(worker.signals) : ~worker.signals[i].cancelled
    /\ (worker.wpc = "done" /\ ~worker.is_cancelled) => (Len(worker.signals) = 1)

====
